---- MODULE Spec2Model ----
(***************************************************************************)
(* PhantomLink: the 40 Hz playback engine (src/playback_engine.py), the    *)
(* session manager (src/session_manager.py) and the streaming handlers     *)
(* (src/server.py, src/src/phantomlink/server.py).                         *)
(*                                                                         *)
(* The server is one asyncio event loop: a coroutine runs without          *)
(* interleaving from one await that suspends to the next.  Every action    *)
(* below is one such run.  Time is counted in ticks of 25 ms, and every     *)
(* timestamp the code keeps is held as its distance from time.time():      *)
(* elapsed = time.time() - _start_time, idle = time.time() - last_active,  *)
(* sleep_left = the time left of an asyncio.sleep.                         *)
(***************************************************************************)
EXTENDS Integers, Sequences, FiniteSets, TLC

VARIABLES
    dataset,    \* MC_MazeLoader._trial_index of the shared dataset
    reads,      \* bin -> what the loader's kinematics query does for that bin
    shut,       \* how far shutdown_event has run; the dataset is open while "up"
    stage,      \* the noise stage: its parameters, its phase offsets, its last call
    engine,     \* engine id -> the fields of one PlaybackEngine object
    conn,       \* consumer id -> one streaming consumer and its stream() generator
    sinceEmit,  \* engine id -> controls seen since the engine's last emission (history)
    wedged,     \* TRUE when a coroutine loops without ever suspending
    order,      \* SessionManager.sessions: the OrderedDict's key order, oldest first
    sess,       \* SessionManager.sessions: code -> entry
    nextEngine, \* identity of the next PlaybackEngine object to be constructed
    evicted,    \* engines of the sessions _evict_oldest_session removed (history)
    lastOp      \* the last call made on the manager and what it returned (history)

vars == <<dataset, reads, shut, stage, engine, conn, sinceEmit, wedged, order, sess, nextEngine, evicted,
          lastOp>>

----------------------------------------------------------------------------
(* Bounds of the model *)

NumBins == 3        \* loader.num_timesteps of the modelled dataset
MaxOut == 4         \* packets one consumer receives before the model stops it
MaxEngines == 3     \* PlaybackEngine objects the manager may construct
MaxSessionOut == 2  \* packets one consumer of a session receives

(* Program constants *)

None == -1                  \* Python's None in an integer-valued field
PacketIntervalMs == 25      \* settings.packet_interval_ms
PauseSleepTicks == 4        \* asyncio.sleep(0.1) while paused = 4 intervals
QuartersPerBin == 4         \* resolution of position_seconds in the model
max_sessions == 2           \* SessionManager(max_sessions=...)
session_ttl == 1            \* SessionManager(session_ttl=...), in ticks

StandaloneEngine == 0       \* the engine object of src/server.py (no session)
SharedLoader == 0           \* SessionManager.shared_loader, the one dataset handle
OwnLoader == 1              \* a loader an engine opened itself in initialize()
EngineIds == 0..MaxEngines
ConnIds == {1, 2}
Codes == {"a", "b", "c"}
NoCode == "none"
\* <<trial_filter, target_filter>> of a stream
FilterPairs == {<<None, None>>, <<0, None>>, <<1, None>>, <<None, 0>>, <<None, 1>>,
                <<1, 0>>}

----------------------------------------------------------------------------
(* The dataset: trials as (trial_id, start, stop, active_target), in ms. *)

TrialLayouts ==
    { << [trial_id |-> 0, start_ms |-> 20, stop_ms |-> 50, active_target |-> 0],
         [trial_id |-> 1, start_ms |-> 50, stop_ms |-> 80, active_target |-> 1] >>,
      << [trial_id |-> 0, start_ms |-> 0,  stop_ms |-> 45, active_target |-> 1],
         [trial_id |-> 1, start_ms |-> 50, stop_ms |-> 200, active_target |-> 0] >> }

NoTrial == [trial_id |-> None, start_ms |-> 0, stop_ms |-> 0, active_target |-> None]

RECURSIVE TrialFrom(_, _, _)
TrialFrom(ds, k, t) ==
    IF k > Len(ds) THEN NoTrial
    ELSE IF ds[k].start_ms <= t /\ t < ds[k].stop_ms THEN ds[k]
    ELSE TrialFrom(ds, k + 1, t)

get_trial_by_time(ds, t) == TrialFrom(ds, 1, t)

(* get_kinematics for one bin: the slice of cursor_pos and hand_vel holds
   samples ("ok"), holds none ("empty": the arrays come back empty), or the
   read of the file raises ("raises"). *)
ReadKinds == {"ok", "empty", "raises"}
AllReadsOk == [i \in 0..(NumBins - 1) |-> "ok"]

(* self.loader.get_kinematics(...) raises: nothing in _generate_packet or in
   stream() catches it. *)
QueryRaises(rd, i) == rd[i] = "raises"

(* float(kinematics_data['vx'][0]) on an empty array: IndexError *)
FirstSampleRaises(rd, i) == rd[i] = "empty"

----------------------------------------------------------------------------
(* PlaybackEngine *)

NewEngine(ld) ==
    [ loader |-> ld, is_running |-> FALSE, is_paused |-> FALSE,
      current_index |-> 0, sequence_number |-> 0, elapsed |-> None ]

NoPacket == [seq |-> None, bin |-> None, trial_id |-> None, target_id |-> None,
             trial_time_ms |-> None, kin |-> "none"]
NoPrev == [seq |-> None, bin |-> None]

NoMark == [set |-> FALSE, seq |-> 0, idx |-> 0]
NoControls == [pause |-> NoMark, seek |-> None]

NewConn ==
    [ pc |-> "new", code |-> NoCode, eng |-> None,
      loop |-> TRUE, trial_filter |-> None, target_filter |-> None,
      sleep_left |-> 0, n |-> 0, last |-> NoPacket,
      gone |-> FALSE,   \* the client has closed its socket
      meta |-> 0,       \* metadata frames sent on the socket
      bus |-> "absent", \* the handler's lsl_streamer: None ("absent", "init_failed")
                        \* or an initialized LSLStreamer ("active")
      pub |-> 0,        \* how many of its packets the handler has passed to the bus
      pubfail |-> 0,    \* how many of those publish calls failed inside push_packet
      \* history: the packet before last, the controls seen before last, whether a
      \* seek hit this stream, how the generator ended, whether one interval passed
      \* between the last two emissions (spaced) and since the last one (aged)
      prev |-> NoPrev, ctx |-> NoControls, seeked |-> FALSE, ended |-> "no",
      spaced |-> TRUE, aged |-> FALSE ]


(* StreamPacket built by _generate_packet for the bin under the cursor. *)
Packet(ds, er) ==
    LET start_ms == er.current_index * PacketIntervalMs
        trial == get_trial_by_time(ds, start_ms)
    IN [ seq |-> er.sequence_number, bin |-> er.current_index,
         trial_id |-> trial.trial_id, target_id |-> trial.active_target,
         trial_time_ms |-> start_ms,
         \* Kinematics(vx=float(kinematics_data['vx'][0]), ...): the first sample
         kin |-> "data" ]

(* _generate_packet's last statement: self._current_index += 1 *)
AdvanceCursor(er) == [er EXCEPT !.current_index = @ + 1]

(* Variant: a rejected packet also uses up a sequence number. *)
FilterSkipCountsSeq(er) ==
    [er EXCEPT !.current_index = @ + 1, !.sequence_number = @ + 1]

(* stream(): a packet the filter rejects: self._current_index += 1 *)
FilterSkip(er) == [er EXCEPT !.current_index = @ + 1]

(* Variant: the wrap restarts the sequence numbers with the cursor. *)
LoopWrapResetsSeq(er) == [er EXCEPT !.current_index = 0, !.sequence_number = 0]

(* stream(): packet is None and loop: self._current_index = 0 *)
LoopWrap(er) == [er EXCEPT !.current_index = 0]

(* Variant: the filters compare ids only for packets that lie in a trial. *)
RejectedInsideTrials(pkt, tf, gf) ==
    \/ tf # None /\ pkt.trial_id # None /\ pkt.trial_id # tf
    \/ gf # None /\ pkt.target_id # None /\ pkt.target_id # gf

(* stream(): which filter test rejects the packet *)
Rejected(pkt, tf, gf) ==
    \/ tf # None /\ pkt.trial_id # tf
    \/ gf # None /\ pkt.target_id # gf

(* The iterations of stream()'s while loop that run without suspending, from
   the cursor of er: up to the yield, the break at the end of the dataset, an
   exception out of _generate_packet (which leaves the cursor on its bin), or
   for ever (a pass from bin 0 that yields nothing repeats itself). *)
RECURSIVE Scan(_, _, _, _, _, _, _)
Scan(ds, rd, er, loop, tf, gf, wraps) ==
    IF er.loader = None \/ er.current_index >= NumBins
    THEN IF loop
         THEN IF wraps >= 1
              THEN [kind |-> "wedge", er |-> er, pkt |-> NoPacket]
              ELSE Scan(ds, rd, LoopWrap(er), loop, tf, gf, wraps + 1)
         ELSE [kind |-> "end", er |-> er, pkt |-> NoPacket]
    ELSE IF QueryRaises(rd, er.current_index) \/ FirstSampleRaises(rd, er.current_index)
    THEN [kind |-> "raise", er |-> er, pkt |-> NoPacket]
    ELSE LET pkt == Packet(ds, er)
             er1 == AdvanceCursor(er)
         IN IF Rejected(pkt, tf, gf)
            THEN Scan(ds, rd, FilterSkip(er1), loop, tf, gf, wraps)
            ELSE [kind |-> "yield", er |-> er1, pkt |-> pkt]

----------------------------------------------------------------------------
(* SessionManager: the map *)

NoSession == [engine |-> None, idle |-> 0, connections |-> 0]

(* A call on the manager: its name, its session code, the value it returned
   (ret: an engine or a count; ok: a bool), and whether the code was in the
   map (for pause and resume: whether the engine was paused) when it was made. *)
NoOp == [op |-> "none", code |-> NoCode, ret |-> None, ok |-> TRUE, was |-> FALSE]

Has(ord, code) == \E i \in 1..Len(ord) : ord[i] = code
InMap(code) == Has(order, code)

Max(a, b) == IF a >= b THEN a ELSE b
Min(a, b) == IF a <= b THEN a ELSE b

increment_connections(s, code) ==
    IF InMap(code) THEN [s EXCEPT ![code].connections = @ + 1] ELSE s

(* Variant: a handler that ends leaves the count as it was. *)
decrement_connectionsKeeps(s, code) == s

decrement_connections(s, code) ==
    IF InMap(code) THEN [s EXCEPT ![code].connections = Max(0, @ - 1)] ELSE s

----------------------------------------------------------------------------
(* The noise stage (NoiseInjectionMiddleware).  Quantities are in tenths:
   noise_std, drift_amplitude and the noise samples; the drift's angle is in
   quarter turns, so that sin takes the values 0, 1, 0, -1. *)

NumChannels == 2    \* channels of a packet given to the stage
MaxCount == 2       \* largest spike count of an input channel

Channels == 1..NumChannels
QuarterTurns == 0..3
NoiseStds == {0, 5}
DriftAmplitudes == {0, 20}

NoPhases == << >>
NoStage ==
    [ noise_std |-> 0, drift_amplitude |-> 0, enable_noise |-> FALSE,
      enable_drift |-> FALSE, drift_offset |-> NoPhases,
      inp |-> << >>, out |-> << >> ]

(* sin(2 pi k / 4) *)
Sin4(k) == CASE k % 4 = 0 -> 0 [] k % 4 = 1 -> 1 [] k % 4 = 2 -> 0 [] k % 4 = 3 -> -1

(* round() of a number of tenths: to the nearest integer, halves to even *)
Round(x) ==
    LET q == x \div 10
        r == x % 10
    IN IF r < 5 THEN q
       ELSE IF r > 5 THEN q + 1
       ELSE IF q % 2 = 0 THEN q ELSE q + 1

(* The samples N(0, noise_std) may give, in tenths. *)
NoiseDraws(sd) == {-3 * sd, 0, 3 * sd}

(* Variant: the result of the rounding is kept as it is. *)
NoisyCountUnclamped(st, count, t, phase, z) ==
    LET noise == IF st.enable_noise THEN z ELSE 0
        drift == IF st.enable_drift THEN st.drift_amplitude * Sin4(t + phase) ELSE 0
    IN Round(count * (10 + drift) + noise)

(* count' = max(0, round(count * (1 + drift) + noise)) *)
NoisyCount(st, count, t, phase, z) ==
    LET noise == IF st.enable_noise THEN z ELSE 0
        drift == IF st.enable_drift THEN st.drift_amplitude * Sin4(t + phase) ELSE 0
    IN Max(0, Round(count * (10 + drift) + noise))

(* apply(packet, elapsed_s): the first call after a reset stores the phase
   offsets phi it drew; every channel gets its new count. *)
inject_noise(st, counts, t, phi, z) ==
    LET ph == IF st.drift_offset = NoPhases THEN phi ELSE st.drift_offset
    IN [st EXCEPT !.drift_offset = ph,
                  !.inp = counts,
                  !.out = [c \in DOMAIN counts |->
                              NoisyCount(st, counts[c], t, ph[c], z[c])]]

(* reset(): phi is cleared *)
reset(st) == [st EXCEPT !.drift_offset = NoPhases]

----------------------------------------------------------------------------
(* stream(): the generator, one action per run between suspensions *)

(* The handler has returned: its websocket and its locals are gone. *)
Closed == [NewConn EXCEPT !.pc = "closed"]

(* Variant: the generator returns without clearing is_running. *)
FinishStillRunning(c, er, cn, why) ==
    /\ engine' = [engine EXCEPT ![cn.eng] = er]
    /\ IF cn.code = NoCode
       THEN /\ conn' = [conn EXCEPT ![c] = [cn EXCEPT !.pc = "done", !.ended = why]]
            /\ sess' = sess
       ELSE /\ conn' = [conn EXCEPT ![c] = Closed]
            /\ sess' = decrement_connections(sess, cn.code)

(* The generator returns: is_running = False; the consumer's async for ends.
   A consumer of a session then runs _handle_stream's finally block. *)
Finish(c, er, cn, why) ==
    /\ engine' = [engine EXCEPT ![cn.eng] = [er EXCEPT !.is_running = FALSE]]
    /\ IF cn.code = NoCode
       THEN /\ conn' = [conn EXCEPT ![c] = [cn EXCEPT !.pc = "done", !.ended = why]]
            /\ sess' = sess
       ELSE /\ conn' = [conn EXCEPT ![c] = Closed]
            /\ sess' = decrement_connections(sess, cn.code)

(* An exception leaves the generator: is_running stays as it was; the
   consumer's async for raises, and a consumer of a session runs
   _handle_stream's except Exception and finally blocks. *)
Raised(c, er, cn) ==
    /\ engine' = [engine EXCEPT ![cn.eng] = er]
    /\ IF cn.code = NoCode
       THEN /\ conn' = [conn EXCEPT ![c] = [cn EXCEPT !.pc = "done", !.ended = "error"]]
            /\ sess' = sess
       ELSE /\ conn' = [conn EXCEPT ![c] = Closed]
            /\ sess' = decrement_connections(sess, cn.code)

(* The history is kept for the standalone engine, whose stream the engine's
   properties are stated on. *)
Noted(e, se) ==
    IF e = StandaloneEngine THEN [sinceEmit EXCEPT ![e] = se] ELSE sinceEmit

(* What the loop's pause test records: the counters at the pause. *)
MarkPause(se, er) ==
    IF se.pause.set THEN se
    ELSE [se EXCEPT !.pause = [set |-> TRUE, seq |-> er.sequence_number,
                               idx |-> er.current_index]]

(* Variant: the paused branch moves the cursor on before it sleeps. *)
PausedBranchAdvances(er) == [er EXCEPT !.current_index = @ + 1]

(* The paused branch of the loop: asyncio.sleep(0.1); continue *)
PausedBranch(er) == er

(* History of the standalone engine's consumer at an emission: the packet
   before, the controls seen since, whether an interval has passed. *)
Remember(cn, se) ==
    IF cn.code # NoCode THEN cn
    ELSE [cn EXCEPT !.prev = [seq |-> cn.last.seq, bin |-> cn.last.bin],
                    !.ctx = se,
                    !.spaced = (cn.n = 0 \/ cn.aged),
                    !.aged = FALSE]

(* From the top of the while loop to the next suspension. *)
RunLoop(c, er, cn, se) ==
    LET e == cn.eng IN
    IF ~er.is_running
    THEN /\ Finish(c, er, cn, "stopped")
         /\ sinceEmit' = Noted(e, se)
         /\ wedged' = wedged
    ELSE IF er.is_paused
    THEN /\ engine' = [engine EXCEPT ![e] = PausedBranch(er)]
         /\ conn' = [conn EXCEPT ![c] =
                        [cn EXCEPT !.pc = "pausewait", !.sleep_left = PauseSleepTicks]]
         /\ sinceEmit' = Noted(e, MarkPause(se, er))
         /\ UNCHANGED <<wedged, sess>>
    ELSE LET r == Scan(dataset, reads, er, cn.loop, cn.trial_filter, cn.target_filter, 0)
         IN CASE r.kind = "yield" ->
                   /\ engine' = [engine EXCEPT ![e] = r.er]
                   /\ conn' = [conn EXCEPT ![c] =
                                  [Remember(cn, se) EXCEPT !.pc = "yielded",
                                                           !.n = @ + 1,
                                                           !.last = r.pkt]]
                   /\ sinceEmit' = Noted(e, NoControls)
                   /\ UNCHANGED <<wedged, sess>>
              [] r.kind = "end" ->
                   /\ Finish(c, r.er, cn, "eos")
                   /\ sinceEmit' = Noted(e, se)
                   /\ wedged' = wedged
              [] r.kind = "raise" ->
                   /\ Raised(c, r.er, cn)
                   /\ sinceEmit' = Noted(e, se)
                   /\ wedged' = wedged
              [] r.kind = "wedge" ->
                   /\ wedged' = TRUE
                   /\ engine' = [engine EXCEPT ![e] = er]
                   /\ conn' = [conn EXCEPT ![c] = cn]
                   /\ sinceEmit' = Noted(e, se)
                   /\ sess' = sess

(* stream() up to the loop: initialize if needed, is_running = True,
   _start_time = time.time(), _current_index = 0, _sequence_number = 0 *)
StreamReset(er) ==
    [er EXCEPT !.loader = IF @ = None THEN OwnLoader ELSE @,
               !.is_running = TRUE, !.elapsed = 0,
               !.current_index = 0, !.sequence_number = 0]

BeginStream(c, cn) ==
    RunLoop(c, StreamReset(engine[cn.eng]),
            [cn EXCEPT !.n = 0, !.last = NoPacket, !.prev = NoPrev,
                       !.seeked = FALSE, !.ended = "no",
                       !.spaced = TRUE, !.aged = FALSE],
            sinceEmit[cn.eng])

(* Variant: the generator resumes without counting the packet. *)
AfterYieldKeeps(er) == er

(* After the yield: _sequence_number += 1 (the statistics counters
   _packets_sent and _timing_errors are not part of the state here) *)
AfterYield(er) ==
    [er EXCEPT !.sequence_number = @ + 1]

(* sleep_duration = (_start_time + _sequence_number * interval) - time.time() *)
SleepDuration(er) == er.sequence_number - er.elapsed

(* The consumer asks for the next packet: the generator resumes after the
   yield, and sleeps only if the next packet is not yet due. *)
ResumeStream(c) ==
    LET cn == conn[c]
        er == AfterYield(engine[cn.eng])
    IN IF SleepDuration(er) > 0
       THEN /\ engine' = [engine EXCEPT ![cn.eng] = er]
            /\ conn' = [conn EXCEPT ![c].pc = "ticksleep",
                                    ![c].sleep_left = SleepDuration(er)]
            /\ UNCHANGED <<sinceEmit, wedged, sess>>
       ELSE RunLoop(c, er, cn, sinceEmit[cn.eng])

WakeStream(c) ==
    RunLoop(c, engine[conn[c].eng], conn[c], sinceEmit[conn[c].eng])

----------------------------------------------------------------------------
(* PlaybackEngine: the controls *)

(* Variant: pause() flips the flag. *)
pauseToggles(er) == [er EXCEPT !.is_paused = ~@]

pause(er) == [er EXCEPT !.is_paused = TRUE]
resume(er) == [er EXCEPT !.is_paused = FALSE]
stop(er) == [er EXCEPT !.is_running = FALSE]

(* int(): truncation toward zero *)
IntTrunc(a, b) == IF a >= 0 THEN a \div b ELSE -((-a) \div b)

(* seek(position_seconds), the position given in quarters of a bin:
   int(position_seconds * 40), clamped to [0, num_timesteps - 1] *)
SeekIndex(q) == Max(0, Min(IntTrunc(q, QuartersPerBin), NumBins - 1))

seek(er, q) ==
    IF er.loader = None THEN er ELSE [er EXCEPT !.current_index = SeekIndex(q)]

SeekPositions == {-2, 6, QuartersPerBin * NumBins + 2}

Streaming(c) == conn[c].pc \in {"yielded", "ticksleep", "pausewait"}

ControlPause(e) ==
    /\ engine' = [engine EXCEPT ![e] = pause(@)]
    /\ UNCHANGED <<conn, sinceEmit>>

ControlResume(e) ==
    /\ engine' = [engine EXCEPT ![e] = resume(@)]
    /\ UNCHANGED <<conn, sinceEmit>>

ControlStop(e) ==
    /\ engine' = [engine EXCEPT ![e] = stop(@)]
    /\ UNCHANGED <<conn, sinceEmit>>

ControlSeek(e, q) ==
    /\ engine' = [engine EXCEPT ![e] = seek(@, q)]
    /\ sinceEmit' = IF engine[e].loader # None
                    THEN Noted(e, [pause |-> NoMark, seek |-> SeekIndex(q)])
                    ELSE sinceEmit
    /\ conn' = [c \in ConnIds |->
                   IF conn[c].eng = e /\ Streaming(c) /\ conn[c].code = NoCode
                   THEN [conn[c] EXCEPT !.seeked = TRUE] ELSE conn[c]]

----------------------------------------------------------------------------
(* The single-engine server (src/server.py): one engine, initialized at
   startup, one consumer iterating engine.stream(...), and the controls. *)

InitState ==
    /\ dataset \in TrialLayouts
    /\ stage = NoStage
    /\ shut = "up"
    /\ conn = [c \in ConnIds |-> NewConn]
    /\ sinceEmit = [e \in EngineIds |-> NoControls]
    /\ wedged = FALSE
    /\ order = << >>
    /\ sess = [code \in Codes |-> NoSession]
    /\ evicted = {}
    /\ lastOp = NoOp

(* A dataset all of whose bins hold kinematics samples. *)
InitCommon ==
    /\ InitState
    /\ reads = AllReadsOk

InitEngine ==
    /\ InitCommon
    /\ engine = [e \in EngineIds |->
                    NewEngine(IF e = StandaloneEngine THEN OwnLoader ELSE None)]
    /\ nextEngine = 1

Consumer == 1

EngStart ==
    /\ ~wedged
    /\ conn[Consumer].pc = "new"
    /\ \E lp \in BOOLEAN, f \in FilterPairs :
          BeginStream(Consumer, [NewConn EXCEPT !.eng = StandaloneEngine, !.loop = lp,
                                     !.trial_filter = f[1], !.target_filter = f[2]])
    /\ UNCHANGED <<lastOp, dataset, stage, reads, shut, order, nextEngine, evicted>>

EngNext ==
    /\ ~wedged
    /\ conn[Consumer].pc = "yielded"
    /\ conn[Consumer].n < MaxOut
    /\ ResumeStream(Consumer)
    /\ UNCHANGED <<lastOp, dataset, stage, reads, shut, order, nextEngine, evicted>>

EngWake ==
    /\ ~wedged
    /\ conn[Consumer].pc \in {"ticksleep", "pausewait"}
    /\ conn[Consumer].sleep_left = 0
    /\ WakeStream(Consumer)
    /\ UNCHANGED <<lastOp, dataset, stage, reads, shut, order, nextEngine, evicted>>

EngPause ==
    /\ ~wedged
    /\ ControlPause(StandaloneEngine)
    /\ UNCHANGED <<lastOp, dataset, stage, reads, shut, wedged, order, sess, nextEngine, evicted>>

EngResume ==
    /\ ~wedged
    /\ ControlResume(StandaloneEngine)
    /\ UNCHANGED <<lastOp, dataset, stage, reads, shut, wedged, order, sess, nextEngine, evicted>>

EngStop ==
    /\ ~wedged
    /\ ControlStop(StandaloneEngine)
    /\ UNCHANGED <<lastOp, dataset, stage, reads, shut, wedged, order, sess, nextEngine, evicted>>

EngSeek ==
    /\ ~wedged
    /\ \E q \in SeekPositions : ControlSeek(StandaloneEngine, q)
    /\ UNCHANGED <<lastOp, dataset, stage, reads, shut, wedged, order, sess, nextEngine, evicted>>

(* One tick of 25 ms passes.  elapsed is only ever compared with a sequence
   number (below cap, the number of packets a stream may reach) and idle with
   session_ttl: each stops growing once the comparison is settled, and a
   _start_time no running generator will read is forgotten. *)
Tick(cap) ==
    /\ engine' = [e \in EngineIds |->
                     IF engine[e].elapsed = None THEN engine[e]
                     ELSE IF \A c \in ConnIds : ~(conn[c].eng = e /\ Streaming(c))
                     THEN [engine[e] EXCEPT !.elapsed = None]
                     ELSE [engine[e] EXCEPT !.elapsed = Min(@ + 1, cap)]]
    /\ conn' = [c \in ConnIds |->
                   [conn[c] EXCEPT !.aged = (conn[c].n > 0 /\ conn[c].code = NoCode),
                                   !.sleep_left = Max(0, @ - 1)]]
    /\ sess' = [code \in Codes |->
                   IF InMap(code)
                   THEN [sess[code] EXCEPT !.idle = Min(@ + 1, session_ttl + 1)]
                   ELSE sess[code]]
    /\ UNCHANGED <<lastOp, dataset, stage, reads, shut, sinceEmit, wedged, order, nextEngine, evicted>>

NextEngine ==
    \/ EngStart \/ EngNext \/ EngWake
    \/ EngPause \/ EngResume \/ EngStop \/ EngSeek
    \/ Tick(MaxOut + 1)

SpecEngine == InitEngine /\ [][NextEngine]_vars

(* The same server on a dataset some of whose bins cannot be read or hold no
   kinematics samples: one consumer, no controls. *)
InitFault ==
    /\ InitState
    /\ reads \in [0..(NumBins - 1) -> ReadKinds]
    /\ engine = [e \in EngineIds |->
                    NewEngine(IF e = StandaloneEngine THEN OwnLoader ELSE None)]
    /\ nextEngine = 1

NextFault ==
    \/ EngStart \/ EngNext \/ EngWake
    \/ Tick(MaxOut + 1)

SpecFault == InitFault /\ [][NextFault]_vars

(* A long run of one unfiltered, looping stream on a fresh engine, the
   consumer asking for each packet at once and time passing while the
   generator sleeps. *)
RingSize == 1000    \* the samples get_stats reports on: _timing_errors[-1000:]

(* len(self._timing_errors) of an engine in its first stream: the list starts
   empty, and each pass after the yield that does _sequence_number += 1 also
   does _timing_errors.append(timing_error); nothing removes an element. *)
TimingErrors(er) == er.sequence_number

RingStart ==
    /\ conn[Consumer].pc = "new"
    /\ BeginStream(Consumer, [NewConn EXCEPT !.eng = StandaloneEngine, !.loop = TRUE])
    /\ UNCHANGED <<lastOp, dataset, stage, reads, shut, order, nextEngine, evicted>>

RingNext ==
    /\ conn[Consumer].pc = "yielded"
    /\ TimingErrors(engine[StandaloneEngine]) <= RingSize
    /\ ResumeStream(Consumer)
    /\ UNCHANGED <<lastOp, dataset, stage, reads, shut, order, nextEngine, evicted>>

RingTick ==
    /\ conn[Consumer].pc = "ticksleep"
    /\ conn[Consumer].sleep_left > 0
    /\ Tick(RingSize + 2)

NextRing == RingStart \/ RingNext \/ EngWake \/ RingTick

SpecRing == InitEngine /\ [][NextRing]_vars

(* The noise stage on its own: any parameter setting, then packets at any
   elapsed time and resets. *)
InitNoise ==
    /\ dataset \in TrialLayouts
    /\ dataset[1].start_ms = 0
    /\ reads = AllReadsOk
    /\ shut = "up"
    /\ conn = [c \in ConnIds |-> NewConn]
    /\ sinceEmit = [e \in EngineIds |-> NoControls]
    /\ wedged = FALSE
    /\ order = << >>
    /\ sess = [code \in Codes |-> NoSession]
    /\ evicted = {}
    /\ lastOp = NoOp
    /\ engine = [e \in EngineIds |-> NewEngine(None)]
    /\ nextEngine = 1
    /\ \E sd \in NoiseStds, amp \in DriftAmplitudes, en \in BOOLEAN, ed \in BOOLEAN :
          stage = [NoStage EXCEPT !.noise_std = sd, !.drift_amplitude = amp,
                                  !.enable_noise = en, !.enable_drift = ed]

NoiseApply ==
    /\ \E counts \in [Channels -> 0..MaxCount], t \in QuarterTurns,
          phi \in IF stage.drift_offset = NoPhases
                  THEN [Channels -> QuarterTurns] ELSE {stage.drift_offset},
          z \in [Channels -> IF stage.enable_noise
                              THEN NoiseDraws(stage.noise_std) ELSE {0}] :
          stage' = inject_noise(stage, counts, t, phi, z)
    /\ UNCHANGED <<dataset, reads, shut, engine, conn, sinceEmit, wedged, order, sess,
                   nextEngine, evicted, lastOp>>

NoiseReset ==
    /\ stage.drift_offset # NoPhases
    /\ stage' = reset(stage)
    /\ UNCHANGED <<dataset, reads, shut, engine, conn, sinceEmit, wedged, order, sess,
                   nextEngine, evicted, lastOp>>

NextNoise == NoiseApply \/ NoiseReset

SpecNoise == InitNoise /\ [][NextNoise]_vars

----------------------------------------------------------------------------
(* SessionManager: the operations, as functions of the manager's state m *)

Manager ==
    [ order |-> order, sess |-> sess, engine |-> engine,
      nextEngine |-> nextEngine, evicted |-> evicted ]

Install(m) ==
    /\ order' = m.order
    /\ sess' = m.sess
    /\ engine' = m.engine
    /\ nextEngine' = m.nextEngine
    /\ evicted' = m.evicted

Remove(ord, code) == SelectSeq(ord, LAMBDA x : x # code)

(* OrderedDict.move_to_end *)
MoveToEnd(ord, code) == Append(Remove(ord, code), code)

(* Variant: looking up a code that is not in the map enters it. *)
update_activityAdds(m, code) ==
    IF Has(m.order, code)
    THEN [m EXCEPT !.sess[code].idle = 0, !.order = Append(Remove(@, code), code)]
    ELSE [m EXCEPT !.sess[code].idle = 0, !.order = Append(@, code)]

(* Variant: the timestamp is refreshed but the entry keeps its place. *)
update_activityNoMove(m, code) ==
    IF Has(m.order, code) THEN [m EXCEPT !.sess[code].idle = 0] ELSE m

(* _update_activity: last_active = time.time(); sessions.move_to_end(code) *)
update_activity(m, code) ==
    IF Has(m.order, code)
    THEN [m EXCEPT !.sess[code].idle = 0, !.order = MoveToEnd(@, code)]
    ELSE m

(* Variant: the lookup does not touch the session's activity. *)
get_sessionNoTouch(m, code) == m

(* get_session: the state it leaves, and the engine (or None) it returns *)
get_session(m, code) == update_activity(m, code)

get_session_ret(m, code) ==
    IF Has(m.order, code) THEN m.sess[code].engine ELSE None

(* Variant: a session is deleted whatever its connection count. *)
delete_sessionUnchecked(m, code) ==
    IF ~Has(m.order, code) THEN m
    ELSE [m EXCEPT !.engine[m.sess[code].engine] = stop(@),
                   !.order = Remove(@, code),
                   !.sess[code] = NoSession]

(* Variant: the entry is removed but its engine is left running. *)
delete_sessionNoStop(m, code) ==
    IF ~Has(m.order, code) THEN m
    ELSE IF m.sess[code].connections > 0 THEN m
    ELSE [m EXCEPT !.order = Remove(@, code), !.sess[code] = NoSession]

(* delete_session: refuse an unknown or a connected session; else
   engine.stop() and del sessions[code] *)
delete_session(m, code) ==
    IF ~Has(m.order, code) THEN m
    ELSE IF m.sess[code].connections > 0 THEN m
    ELSE [m EXCEPT !.engine[m.sess[code].engine] = stop(@),
                   !.order = Remove(@, code),
                   !.sess[code] = NoSession]

delete_session_ret(m, code) ==
    Has(m.order, code) /\ m.sess[code].connections = 0

(* _evict_oldest_session: the first key of the OrderedDict, unless connected *)
evict_oldest_session(m) ==
    IF m.order = << >> THEN m
    ELSE LET oldest_code == Head(m.order)
         IN IF m.sess[oldest_code].connections > 0 THEN m
            ELSE [delete_session(m, oldest_code) EXCEPT
                      !.evicted = @ \cup {m.sess[oldest_code].engine}]

(* Variant: every session's entry holds one and the same engine object. *)
SessionEntrySharedEngine(e) == [engine |-> 1, idle |-> 0, connections |-> 0]

(* The entry create_session stores: engine, created = last_active = now,
   connections = 0 *)
SessionEntry(e) == [engine |-> e, idle |-> 0, connections |-> 0]

(* Variant: the capacity is enforced before the code is looked up. *)
create_sessionEvictFirst(m, code) ==
    LET m1 == IF Len(m.order) >= max_sessions
              THEN evict_oldest_session(m) ELSE m
    IN IF Has(m1.order, code) THEN update_activity(m1, code)
       ELSE LET e == m1.nextEngine
            IN [m1 EXCEPT !.engine[e] = NewEngine(SharedLoader),
                          !.sess[code] = SessionEntry(e),
                          !.order = Append(@, code),
                          !.nextEngine = @ + 1]

(* create_session: an existing code is touched and returned; else evict at
   capacity, construct a PlaybackEngine on the shared loader, store the entry *)
create_session(m, code) ==
    IF Has(m.order, code) THEN update_activity(m, code)
    ELSE LET m1 == IF Len(m.order) >= max_sessions
                   THEN evict_oldest_session(m) ELSE m
             e == m1.nextEngine
         IN [m1 EXCEPT !.engine[e] = NewEngine(SharedLoader),
                       !.sess[code] = SessionEntry(e),
                       !.order = Append(@, code),
                       !.nextEngine = @ + 1]

(* Variant: a session counts as expired whatever its connection count. *)
ExpiredIgnoringConnections(m) ==
    SelectSeq(m.order, LAMBDA code : m.sess[code].idle > session_ttl)

(* cleanup_expired_sessions: collect the expired codes, then delete each *)
Expired(m) ==
    SelectSeq(m.order, LAMBDA code : /\ m.sess[code].idle > session_ttl
                                      /\ m.sess[code].connections = 0)

RECURSIVE DeleteEach(_, _)
DeleteEach(m, codes) ==
    IF codes = << >> THEN m
    ELSE DeleteEach(delete_session(m, Head(codes)), Tail(codes))

cleanup_expired_sessions(m) == DeleteEach(m, Expired(m))

cleanup_expired_sessions_ret(m) == Len(Expired(m))

(* cleanup: for code in list(self.sessions.keys()): self.delete_session(code);
   the shared loader is closed by the action that calls it. *)
cleanup(m) == DeleteEach(m, m.order)

----------------------------------------------------------------------------
(* The session server (src/src/phantomlink/server.py): HTTP endpoints and
   the streaming handler _handle_stream, one action per run between awaits *)

\* <<trial_id, target_id>> query parameters of a streaming request
StreamQueries == {<<None, None>>}
\* position_seconds of the seek requests, in quarters of a bin
SessionSeeks == {6}

Init ==
    /\ InitCommon
    /\ dataset[1].start_ms = 0
    /\ engine = [e \in EngineIds |-> NewEngine(None)]
    /\ nextEngine = 1

(* The call is kept in lastOp where the manager's calls are followed. *)
Logged(rec, entry) == lastOp' = IF rec THEN entry ELSE lastOp

(* POST /api/sessions/create *)
CreateSessionCall(code, rec) ==
    /\ ~wedged
    /\ InMap(code) \/ nextEngine <= MaxEngines
    /\ Install(create_session(Manager, code))
    /\ Logged(rec, [op |-> "create", code |-> code,
                    ret |-> get_session_ret(create_session(Manager, code), code),
                    ok |-> TRUE, was |-> InMap(code)])
    /\ UNCHANGED <<dataset, stage, reads, shut, conn, sinceEmit, wedged>>

CreateSession(code) == CreateSessionCall(code, FALSE)

(* GET /api/sessions/{code} *)
GetSessionCall(code, rec) ==
    /\ ~wedged
    /\ Install(get_session(Manager, code))
    /\ Logged(rec, [op |-> "get", code |-> code,
                    ret |-> get_session_ret(Manager, code),
                    ok |-> TRUE, was |-> InMap(code)])
    /\ UNCHANGED <<dataset, stage, reads, shut, conn, sinceEmit, wedged>>

GetSession(code) == GetSessionCall(code, FALSE)

(* DELETE /api/sessions/{code} *)
DeleteSessionCall(code, rec) ==
    /\ ~wedged
    /\ Install(delete_session(Manager, code))
    /\ Logged(rec, [op |-> "delete", code |-> code, ret |-> None,
                    ok |-> delete_session_ret(Manager, code), was |-> InMap(code)])
    /\ UNCHANGED <<dataset, stage, reads, shut, conn, sinceEmit, wedged>>

DeleteSession(code) == DeleteSessionCall(code, FALSE)

(* periodic_cleanup, POST /api/sessions/cleanup *)
CleanupExpiredCall(rec) ==
    /\ ~wedged
    /\ Install(cleanup_expired_sessions(Manager))
    /\ Logged(rec, [op |-> "cleanup", code |-> NoCode,
                    ret |-> cleanup_expired_sessions_ret(Manager),
                    ok |-> TRUE, was |-> FALSE])
    /\ UNCHANGED <<dataset, stage, reads, shut, conn, sinceEmit, wedged>>

CleanupExpired == CleanupExpiredCall(FALSE)

(* POST /api/control/{code}/...: get_session, 404 if None, else the control *)
Touched(code) ==
    /\ order' = get_session(Manager, code).order
    /\ sess' = get_session(Manager, code).sess
    /\ UNCHANGED <<dataset, stage, reads, shut, wedged, nextEngine, evicted>>

HttpPauseCall(code, rec) ==
    /\ ~wedged
    /\ InMap(code)
    /\ ControlPause(get_session_ret(Manager, code))
    /\ Touched(code)
    /\ Logged(rec, [op |-> "pause", code |-> code,
                    ret |-> get_session_ret(Manager, code), ok |-> TRUE,
                    was |-> engine[get_session_ret(Manager, code)].is_paused])

HttpPause(code) == HttpPauseCall(code, FALSE)

HttpResumeCall(code, rec) ==
    /\ ~wedged
    /\ InMap(code)
    /\ ControlResume(get_session_ret(Manager, code))
    /\ Touched(code)
    /\ Logged(rec, [op |-> "resume", code |-> code,
                    ret |-> get_session_ret(Manager, code), ok |-> TRUE,
                    was |-> engine[get_session_ret(Manager, code)].is_paused])

HttpResume(code) == HttpResumeCall(code, FALSE)

(* POST /api/control/{code}/pause, resume, stop, seek on a code get_session
   does not find: raise HTTPException(status_code=404) *)
ControlOps == {"pause", "resume", "stop", "seek"}

HttpControlNotFoundCall(op, code, rec) ==
    /\ ~wedged
    /\ get_session_ret(Manager, code) = None
    /\ Install(get_session(Manager, code))
    /\ Logged(rec, [op |-> op, code |-> code, ret |-> None, ok |-> FALSE,
                    was |-> FALSE])
    /\ UNCHANGED <<dataset, stage, reads, shut, conn, sinceEmit, wedged>>

HttpStopCall(code, rec) ==
    /\ ~wedged
    /\ InMap(code)
    /\ ControlStop(get_session_ret(Manager, code))
    /\ Touched(code)
    /\ Logged(rec, [op |-> "stop", code |-> code,
                    ret |-> get_session_ret(Manager, code), ok |-> TRUE,
                    was |-> engine[get_session_ret(Manager, code)].is_running])

HttpStop(code) == HttpStopCall(code, FALSE)

HttpSeek(code, q) ==
    /\ ~wedged
    /\ InMap(code)
    /\ ControlSeek(get_session_ret(Manager, code), q)
    /\ Touched(code)
    /\ UNCHANGED lastOp

(* _handle_stream up to await websocket.accept(): get_session, or
   create_session and get_session *)
WsOpenCall(c, code, f, rec) ==
    /\ ~wedged
    /\ conn[c].pc = "new"
    /\ \A d \in ConnIds : d < c => conn[d].pc # "new"
    /\ InMap(code) \/ nextEngine <= MaxEngines
    /\ LET m1 == get_session(Manager, code)
           m2 == IF get_session_ret(Manager, code) # None THEN m1
                 ELSE get_session(create_session(m1, code), code)
       IN /\ Install(m2)
          /\ conn' = [conn EXCEPT ![c] =
                         [NewConn EXCEPT !.pc = "accepting", !.code = code,
                                         !.eng = get_session_ret(m2, code),
                                         !.loop = TRUE,
                                         !.trial_filter = f[1],
                                         !.target_filter = f[2]]]
          /\ Logged(rec, [op |-> "get", code |-> code,
                          ret |-> get_session_ret(m2, code),
                          ok |-> TRUE, was |-> InMap(code)])
    /\ UNCHANGED <<dataset, stage, reads, shut, sinceEmit, wedged>>

WsOpen(c, code, f) == WsOpenCall(c, code, f, FALSE)

(* accept() raises: the handler ends before it counted the connection *)
WsAcceptFail(c) ==
    /\ ~wedged
    /\ conn[c].pc = "accepting"
    /\ conn' = [conn EXCEPT ![c] = Closed]
    /\ UNCHANGED <<lastOp, dataset, stage, reads, shut, engine, sinceEmit, wedged, order, sess, nextEngine, evicted>>

(* What the handler's lsl_streamer can be: None because pylsl is missing or
   LSL is disabled ("absent"), None because LSLStreamer.initialize failed and
   create_streamer returned None ("init_failed"), or a streamer ("active"). *)
BusKinds == {"absent", "init_failed", "active"}

(* accept() returns: active_connections.add, increment_connections, the
   lookup or creation of the session's LSL streamer, then await send of the
   metadata message *)
WsAcceptedWith(c, bus) ==
    /\ ~wedged
    /\ conn[c].pc = "accepting"
    /\ conn' = [conn EXCEPT ![c].pc = "meta", ![c].bus = bus]
    /\ sess' = increment_connections(sess, conn[c].code)
    /\ UNCHANGED <<lastOp, dataset, stage, reads, shut, engine, sinceEmit, wedged, order, nextEngine, evicted>>

(* the same with the side bus absent *)
WsAccepted(c) ==
    /\ ~wedged
    /\ conn[c].pc = "accepting"
    /\ conn' = [conn EXCEPT ![c].pc = "meta"]
    /\ sess' = increment_connections(sess, conn[c].code)
    /\ UNCHANGED <<lastOp, dataset, stage, reads, shut, engine, sinceEmit, wedged, order, nextEngine, evicted>>

(* Variant: the stream starts without a metadata frame. *)
MetadataSkipped(cn) == cn

(* await websocket.send_bytes(metadata_bytes) / send_json(metadata_msg) *)
MetadataSent(cn) == [cn EXCEPT !.meta = @ + 1]

(* the metadata is sent: async for packet in playback_engine.stream(loop=True,
   ...) runs to its first suspension *)
WsMetaSent(c) ==
    /\ ~wedged
    /\ conn[c].pc = "meta"
    /\ BeginStream(c, MetadataSent(conn[c]))
    /\ UNCHANGED <<lastOp, dataset, stage, reads, shut, order, nextEngine, evicted>>

(* the packet is sent and the receive poll timed out: next iteration *)
WsNext(c) ==
    /\ ~wedged
    /\ conn[c].pc = "yielded"
    /\ conn[c].n < MaxSessionOut
    /\ ResumeStream(c)
    /\ UNCHANGED <<lastOp, dataset, stage, reads, shut, order, nextEngine, evicted>>

(* a sleep of the generator is over *)
WsWake(c) ==
    /\ ~wedged
    /\ conn[c].pc \in {"ticksleep", "pausewait"}
    /\ conn[c].sleep_left = 0
    /\ WakeStream(c)
    /\ UNCHANGED <<lastOp, dataset, stage, reads, shut, order, nextEngine, evicted>>

(* Variant: leaving the stream stops the engine. *)
GeneratorDiscardedStops(er) == [er EXCEPT !.is_running = FALSE]

(* The handler breaks out of its async for: the generator is dropped where it
   is, at the yield, and the statements after stream()'s loop do not run. *)
GeneratorDiscarded(er) == er

(* a send or the receive poll raises: break, then the finally block:
   active_connections.discard, decrement_connections *)
WsDisconnect(c) ==
    /\ ~wedged
    /\ conn[c].pc \in {"meta", "yielded"}
    /\ conn' = [conn EXCEPT ![c] = Closed]
    /\ sess' = decrement_connections(sess, conn[c].code)
    /\ engine' = [engine EXCEPT ![conn[c].eng] = GeneratorDiscarded(@)]
    /\ UNCHANGED <<lastOp, dataset, stage, reads, shut, sinceEmit, wedged, order, nextEngine, evicted>>

(* The session map: every manager operation, and every connection followed
   from the request to its first packet and to its end. *)
Next ==
    \/ \E code \in Codes : CreateSession(code)
    \/ \E code \in Codes : GetSession(code)
    \/ \E code \in Codes : DeleteSession(code)
    \/ CleanupExpired
    \/ \E c \in ConnIds, code \in Codes, f \in StreamQueries : WsOpen(c, code, f)
    \/ \E c \in ConnIds : WsAcceptFail(c)
    \/ \E c \in ConnIds : WsAccepted(c)
    \/ \E c \in ConnIds : WsMetaSent(c)
    \/ \E c \in ConnIds : WsDisconnect(c)
    \/ Tick(1)

Spec == Init /\ [][Next]_vars

(* Streaming and controls on sessions: two session codes, one consumer that
   is followed packet by packet, and the control endpoints. *)
StreamCodes == {"a", "b"}
StreamConns == {1}

NextStream ==
    \/ \E code \in StreamCodes : CreateSession(code)
    \/ \E code \in StreamCodes : HttpPause(code)
    \/ \E code \in StreamCodes : HttpResume(code)
    \/ \E code \in StreamCodes : HttpStop(code)
    \/ \E code \in StreamCodes, q \in SessionSeeks : HttpSeek(code, q)
    \/ \E c \in StreamConns, code \in StreamCodes, f \in StreamQueries : WsOpen(c, code, f)
    \/ \E c \in StreamConns : WsAccepted(c)
    \/ \E c \in StreamConns : WsMetaSent(c)
    \/ \E c \in StreamConns : WsNext(c)
    \/ \E c \in StreamConns : WsWake(c)
    \/ \E c \in StreamConns : WsDisconnect(c)
    \/ Tick(MaxSessionOut + 1)

SpecStream == Init /\ [][NextStream]_vars

(* The manager's calls one by one, each kept in lastOp with what it returned,
   beside one consumer followed to its first packet and to its end. *)
MgrCreate(code) == CreateSessionCall(code, TRUE)
MgrGet(code) == GetSessionCall(code, TRUE)
MgrDelete(code) == DeleteSessionCall(code, TRUE)
MgrCleanup == CleanupExpiredCall(TRUE)
MgrPause(code) == HttpPauseCall(code, TRUE)
MgrResume(code) == HttpResumeCall(code, TRUE)
MgrWsOpen(c, code, f) == WsOpenCall(c, code, f, TRUE)

NextManager ==
    \/ \E code \in Codes : MgrCreate(code)
    \/ \E code \in Codes : MgrGet(code)
    \/ \E code \in Codes : MgrDelete(code)
    \/ MgrCleanup
    \/ \E c \in StreamConns, code \in Codes, f \in StreamQueries : MgrWsOpen(c, code, f)
    \/ \E c \in StreamConns : WsAccepted(c)
    \/ \E c \in StreamConns : WsMetaSent(c)
    \/ \E c \in StreamConns : WsDisconnect(c)
    \/ Tick(1)

SpecManager == Init /\ [][NextManager]_vars

(* The calls that may find nothing to do: pause, resume and delete on two
   session codes, beside one consumer. *)
NextControls ==
    \/ \E code \in StreamCodes : MgrCreate(code)
    \/ \E code \in StreamCodes : MgrDelete(code)
    \/ \E code \in StreamCodes : MgrPause(code)
    \/ \E code \in StreamCodes : MgrResume(code)
    \/ \E c \in StreamConns, code \in StreamCodes, f \in StreamQueries : MgrWsOpen(c, code, f)
    \/ \E c \in StreamConns : WsAccepted(c)
    \/ \E c \in StreamConns : WsMetaSent(c)
    \/ \E c \in StreamConns : WsWake(c)
    \/ \E c \in StreamConns : WsDisconnect(c)
    \/ Tick(1)

SpecControls == Init /\ [][NextControls]_vars

(* The client of a streaming connection closes its socket.  The handler learns
   of it when a send or the receive poll raises (WsDisconnect). *)
ClientClose(c) ==
    /\ ~wedged
    /\ conn[c].pc \in {"meta", "yielded", "ticksleep", "pausewait"}
    /\ ~conn[c].gone
    /\ conn' = [conn EXCEPT ![c].gone = TRUE]
    /\ UNCHANGED <<lastOp, dataset, stage, reads, shut, engine, sinceEmit, wedged, order, sess, nextEngine,
                   evicted>>

(* the socket is closed: the next send or receive raises *)
LiveDisconnect(c) == conn[c].gone /\ WsDisconnect(c)

(* the socket is open: the metadata is sent, the stream starts *)
LiveMetaSent(c) == ~conn[c].gone /\ WsMetaSent(c)

(* the socket is open: the packet is sent, the loop goes on *)
LiveNext(c) == ~conn[c].gone /\ WsNext(c)

(* A consumer and its client, with the pause and resume requests of others.
   The event loop runs every coroutine that is ready and time passes; nothing
   obliges a client to send a request or to close. *)
NextLive ==
    \/ \E code \in StreamCodes : HttpPause(code)
    \/ \E code \in StreamCodes : HttpResume(code)
    \/ \E c \in StreamConns, code \in StreamCodes, f \in StreamQueries : WsOpen(c, code, f)
    \/ \E c \in StreamConns : WsAccepted(c)
    \/ \E c \in StreamConns : LiveMetaSent(c)
    \/ \E c \in StreamConns : ClientClose(c)
    \/ \E c \in StreamConns : LiveNext(c)
    \/ \E c \in StreamConns : LiveDisconnect(c)
    \/ \E c \in StreamConns : WsWake(c)
    \/ Tick(MaxSessionOut + 1)

SpecLive ==
    /\ Init /\ [][NextLive]_vars
    /\ WF_vars(\E c \in StreamConns : WsAccepted(c))
    /\ WF_vars(\E c \in StreamConns : LiveMetaSent(c))
    /\ WF_vars(\E c \in StreamConns : LiveNext(c))
    /\ WF_vars(\E c \in StreamConns : LiveDisconnect(c))
    /\ WF_vars(\E c \in StreamConns : WsWake(c))
    /\ WF_vars(Tick(MaxSessionOut + 1))

(* Variant: an exception in a publish call reaches the handler, whose
   except Exception ends the loop. *)
push_packetRaises(cn, ok) ==
    IF ok THEN [cn EXCEPT !.pub = cn.n]
    ELSE [Closed EXCEPT !.code = cn.code]

(* LSLStreamer.push_packet, run by push_packet_async in the executor: the
   samples are pushed, or an exception is caught and logged inside
   push_packet; either way the call returns to the handler. *)
push_packet(cn, ok) ==
    [cn EXCEPT !.pub = cn.n, !.pubfail = IF ok THEN @ ELSE @ + 1]

(* if lsl_streamer: await lsl_streamer.push_packet_async(packet), before the
   packet is sent on the socket *)
LslPublish(c, ok) ==
    /\ ~wedged
    /\ conn[c].pc = "yielded"
    /\ conn[c].bus = "active"
    /\ conn[c].pub < conn[c].n
    /\ conn' = [conn EXCEPT ![c] = push_packet(@, ok)]
    /\ UNCHANGED <<lastOp, dataset, stage, reads, shut, engine, sinceEmit, wedged, order, sess, nextEngine,
                   evicted>>

(* the packet, published if there is a streamer, is sent on the socket and
   the receive poll timed out: next iteration *)
LslNext(c) ==
    /\ conn[c].bus = "active" => conn[c].pub = conn[c].n
    /\ WsNext(c)

(* One session server with the side bus in each of its conditions: a
   consumer followed packet by packet through publish and send. *)
NextLsl ==
    \/ \E c \in StreamConns, code \in StreamCodes, f \in StreamQueries : WsOpen(c, code, f)
    \/ \E c \in StreamConns, bus \in BusKinds : WsAcceptedWith(c, bus)
    \/ \E c \in StreamConns : WsMetaSent(c)
    \/ \E c \in StreamConns, ok \in BOOLEAN : LslPublish(c, ok)
    \/ \E c \in StreamConns : LslNext(c)
    \/ \E c \in StreamConns : WsWake(c)
    \/ \E c \in StreamConns : WsDisconnect(c)
    \/ Tick(MaxSessionOut + 1)

SpecLsl == Init /\ [][NextLsl]_vars

(* A connection whose socket the handler still holds. *)
Active(c) == conn[c].pc \in {"meta", "yielded", "ticksleep", "pausewait"}

(* Once the file is closed every query on it raises. *)
AllReadsRaise == [i \in 0..(NumBins - 1) |-> "raises"]

(* shutdown_event up to its first await: the cleanup task is cancelled, the
   LSL streamers are removed, session_manager.cleanup() deletes what
   delete_session lets it delete and closes the shared loader; the loop that
   closes the sockets comes after. *)
Shutdown ==
    /\ ~wedged
    /\ shut = "up"
    /\ Install(cleanup(Manager))
    /\ reads' = AllReadsRaise
    /\ shut' = "closing"
    /\ UNCHANGED <<lastOp, dataset, stage, conn, sinceEmit, wedged>>

(* for connection in active_connections: await connection.close() *)
ShutdownClose(c) ==
    /\ ~wedged
    /\ shut = "closing"
    /\ Active(c)
    /\ ~conn[c].gone
    /\ conn' = [conn EXCEPT ![c].gone = TRUE]
    /\ UNCHANGED <<lastOp, dataset, stage, reads, shut, engine, sinceEmit, wedged, order, sess, nextEngine,
                   evicted>>

(* the loop over active_connections is over: "Server shutdown complete" *)
ShutdownDone ==
    /\ ~wedged
    /\ shut = "closing"
    /\ \A c \in ConnIds : Active(c) => conn[c].gone
    /\ shut' = "done"
    /\ UNCHANGED <<lastOp, dataset, stage, reads, engine, conn, sinceEmit, wedged, order, sess, nextEngine,
                   evicted>>

(* The session server from its requests to its shutdown: sessions with and
   without consumers, the consumers followed packet by packet; requests are
   served while the server is up, the handlers and generators that are
   under way run on through the shutdown. *)
NextShutdown ==
    \/ \E code \in StreamCodes : shut = "up" /\ CreateSession(code)
    \/ \E c \in StreamConns, code \in StreamCodes, f \in StreamQueries :
           shut = "up" /\ WsOpen(c, code, f)
    \/ \E c \in StreamConns : shut = "up" /\ WsAccepted(c)
    \/ \E c \in StreamConns : LiveMetaSent(c)
    \/ \E c \in StreamConns : LiveNext(c)
    \/ \E c \in StreamConns : WsWake(c)
    \/ \E c \in StreamConns : WsDisconnect(c)
    \/ Shutdown
    \/ \E c \in StreamConns : ShutdownClose(c)
    \/ ShutdownDone
    \/ Tick(MaxSessionOut + 1)

SpecShutdown == Init /\ [][NextShutdown]_vars

(* One session, its stop request kept in lastOp, and what may follow it:
   resume, seek, the consumers under way and a new connection. *)
MgrStop(code) == HttpStopCall(code, TRUE)

StopCodes == {"a"}

NextStop ==
    \/ \E code \in StopCodes : MgrStop(code)
    \/ \E code \in StopCodes : HttpResume(code)
    \/ \E code \in StopCodes, q \in SessionSeeks : HttpSeek(code, q)
    \/ \E c \in ConnIds, code \in StopCodes, f \in StreamQueries : WsOpen(c, code, f)
    \/ \E c \in ConnIds : WsAccepted(c)
    \/ \E c \in ConnIds : WsMetaSent(c)
    \/ \E c \in ConnIds : WsNext(c)
    \/ \E c \in ConnIds : WsWake(c)
    \/ \E c \in ConnIds : WsDisconnect(c)
    \/ Tick(MaxSessionOut + 1)

SpecStop == Init /\ [][NextStop]_vars

(* The frames of the two streaming endpoints.  An object (a dict, a model's
   model_dump()) is the set of its <<path, value>> leaves; a frame is the
   sequence of leaves its encoder writes. *)
Prefixed(p, doc) == {<<p \o "." \o e[1], e[2]>> : e \in doc}

(* msgpack.packb(data, use_bin_type=True); msgpack.unpackb(data, raw=False) *)
RECURSIVE packb(_)
packb(doc) ==
    IF doc = {} THEN << >>
    ELSE LET e == CHOOSE x \in doc : TRUE IN <<e>> \o packb(doc \ {e})

unpackb(frame) == {frame[i] : i \in DOMAIN frame}

(* websocket.send_json(obj): json.dumps; the client's json.loads *)
RECURSIVE send_json(_)
send_json(doc) ==
    IF doc = {} THEN << >>
    ELSE LET e == CHOOSE x \in doc : TRUE IN <<e>> \o send_json(doc \ {e})

json_loads(frame) == {frame[i] : i \in DOMAIN frame}

(* playback_engine.get_metadata().model_dump() *)
MetadataDump ==
    {<<"dataset", "MC_Maze">>, <<"total_packets", NumBins>>,
     <<"num_trials", Len(dataset)>>}

(* metadata_msg of _handle_stream for a request on the given endpoint *)
metadata_msg(code, format) ==
    {<<"type", "metadata">>} \cup Prefixed("data", MetadataDump)
        \cup {<<"session.code", code>>,
              <<"session.url", IF format = "binary" THEN "/stream/binary/" \o code
                                                    ELSE "/stream/" \o code>>}

(* StreamPacket.model_dump(): the packet's fields (the spike counts stand
   for the bin they were read from) *)
model_dump(pkt) ==
    {<<"sequence_number", pkt.seq>>, <<"spikes.spike_counts", pkt.bin>>,
     <<"kinematics", pkt.kin>>, <<"intention.target_id", pkt.target_id>>,
     <<"trial_id", pkt.trial_id>>, <<"trial_time_ms", pkt.trial_time_ms>>}

(* MsgPackSerializer.serialize_packet: the dict it builds field by field *)
serialize_packet(pkt) ==
    packb({<<"sequence_number", pkt.seq>>, <<"spikes.spike_counts", pkt.bin>>,
           <<"kinematics", pkt.kin>>, <<"intention.target_id", pkt.target_id>>,
           <<"trial_id", pkt.trial_id>>, <<"trial_time_ms", pkt.trial_time_ms>>})

(* MsgPackSerializer.serialize_message: {"type": msg_type, "data": payload} *)
serialize_message(msg_type, payload) ==
    packb({<<"type", msg_type>>} \cup Prefixed("data", payload))

(* The first frame of a connection on each endpoint: the binary endpoint
   serialises metadata_msg["data"], the text endpoint sends metadata_msg. *)
BinaryMetadataFrame(code) == serialize_message("metadata", MetadataDump)
TextMetadataFrame(code) == send_json(metadata_msg(code, "json"))

(* A data frame on each endpoint. *)
BinaryDataFrame(pkt) == serialize_message("data", unpackb(serialize_packet(pkt)))
TextDataFrame(pkt) ==
    send_json({<<"type", "data">>} \cup Prefixed("data", model_dump(pkt)))

(* Requests on session codes that may or may not be in the map: every HTTP
   operation addressed to a session and the streaming request, beside the
   calls that create and remove sessions. *)
MgrControlNotFound(op, code) == HttpControlNotFoundCall(op, code, TRUE)

NextNotFound ==
    \/ \E code \in Codes : MgrCreate(code)
    \/ \E code \in Codes : MgrGet(code)
    \/ \E code \in Codes : MgrDelete(code)
    \/ \E code \in Codes, op \in ControlOps : MgrControlNotFound(op, code)
    \/ \E c \in StreamConns, code \in Codes, f \in StreamQueries : MgrWsOpen(c, code, f)
    \/ \E c \in StreamConns : WsAccepted(c)
    \/ \E c \in StreamConns : WsMetaSent(c)
    \/ \E c \in StreamConns : WsDisconnect(c)

SpecNotFound == Init /\ [][NextNotFound]_vars

----------------------------------------------------------------------------
(* Properties of one engine with one consumer (SpecEngine) *)

TheConn == conn[Consumer]
TheEngine == engine[StandaloneEngine]
Unfiltered(cn) == cn.trial_filter = None /\ cn.target_filter = None

(* C1 -- sequence integrity: the k-th packet a consumer receives on one
   connection carries sequence number k - 1, whatever filter, pause, resume,
   seek or loop wrap happened on the way: the numbers start at 0 and rise by
   exactly 1, with no gap and no repeat. *)
C1_SequenceIntegrity ==
    /\ TheConn.n > 0 => TheConn.last.seq = TheConn.n - 1
    /\ TheConn.n > 1 => TheConn.last.seq = TheConn.prev.seq + 1

(* C1's case: a third or later packet, emitted after a pause was seen, whose
   bin is not after the previous packet's bin (a seek back or a wrap). *)
C1_Witness ==
    /\ TheConn.n >= 3
    /\ TheConn.ctx.pause.set
    /\ TheConn.last.bin <= TheConn.prev.bin

(* C2 -- filter soundness: under a target filter every emitted packet has that
   target id, under a trial filter every emitted packet has that trial id, and
   under either filter no packet from outside every trial is emitted. *)
C2_FilterSoundness ==
    TheConn.n > 0 =>
        /\ TheConn.target_filter # None => TheConn.last.target_id = TheConn.target_filter
        /\ TheConn.trial_filter # None => TheConn.last.trial_id = TheConn.trial_filter
        /\ ~Unfiltered(TheConn) => TheConn.last.trial_id # None

(* C2's case: packets emitted under a trial filter and a target filter
   together, from a dataset that also holds bins the filter rejects. *)
C2_Witness ==
    /\ TheConn.n >= 2
    /\ TheConn.trial_filter # None
    /\ TheConn.target_filter # None
    /\ TheConn.last.bin > TheConn.n - 1

(* C3 -- tick cadence, as the specification states it: two consecutive
   emissions of a stream are never back to back; at least one packet interval
   lies between them. *)
C3_NoBurst ==
    TheConn.n >= 2 => TheConn.spaced

(* While the loop sits in its paused branch and is_paused holds, a step emits
   nothing, keeps the sequence number, and moves the cursor only by a seek. *)
C4_FrozenStep ==
    (TheConn.pc = "pausewait" /\ TheEngine.is_paused) =>
        /\ TheConn'.n = TheConn.n
        /\ TheEngine'.sequence_number = TheEngine.sequence_number
        /\ \/ TheEngine'.current_index = TheEngine.current_index
           \/ TheEngine'.current_index = sinceEmit'[StandaloneEngine].seek

(* The first packet after a pause the loop saw carries the counters that were
   next at the pause (the cursor wrapped to 0 if it stood past the last bin). *)
C4_AfterResume ==
    (TheConn.n > 0 /\ TheConn.ctx.pause.set) =>
        /\ TheConn.last.seq = TheConn.ctx.pause.seq
        /\ Unfiltered(TheConn) =>
              TheConn.last.bin = IF TheConn.ctx.pause.idx < NumBins
                                 THEN TheConn.ctx.pause.idx ELSE 0

(* C4 -- pause: once the loop has seen the pause, and until resume() is called,
   no packet is emitted and the sequence number does not change, and the cursor
   moves only by a seek; the first packet after the resume carries the sequence
   number the engine had at the pause and, without a filter, the bin the cursor
   was on. *)
C4_Pause == [][C4_FrozenStep]_vars /\ []C4_AfterResume

(* C4's case: a packet emitted after a pause that the loop saw in mid-stream. *)
C4_Witness ==
    /\ TheConn.n >= 2
    /\ TheConn.ctx.pause.set
    /\ TheConn.ctx.pause.seq >= 1
    /\ TheConn.ctx.pause.idx >= 1
    /\ Unfiltered(TheConn)

(* C5 -- seek, as the specification states it: after seek(t), in every state
   of the engine including before its first stream, the next packet emitted
   (without a filter) is the bin clamp(floor(t * 40), 0, N - 1), and its
   sequence number is one more than the previous packet's (0 for the first). *)
C5_SeekNextPacket ==
    (TheConn.n > 0 /\ TheConn.ctx.seek # None /\ Unfiltered(TheConn)) =>
        /\ TheConn.last.bin = TheConn.ctx.seek
        /\ TheConn.last.seq = TheConn.prev.seq + 1

(* C6 -- loop continuity: with loop on, the packet after the last bin's packet
   has the next sequence number, and without a filter it is bin 0. *)
C6_LoopContinuity ==
    (TheConn.n >= 2 /\ TheConn.loop /\ TheConn.prev.bin = NumBins - 1
        /\ TheConn.ctx.seek = None) =>
        /\ TheConn.last.seq = TheConn.prev.seq + 1
        /\ Unfiltered(TheConn) => TheConn.last.bin = 0

(* C6's case: the stream ran through the whole dataset and wrapped. *)
C6_Witness ==
    /\ TheConn.n = NumBins + 1
    /\ TheConn.loop
    /\ Unfiltered(TheConn)
    /\ ~TheConn.seeked
    /\ TheConn.prev.bin = NumBins - 1
    /\ TheConn.last.bin = 0

(* Without loop, filter or seek the k-th packet is bin k - 1. *)
C7_InOrder ==
    (~TheConn.loop /\ Unfiltered(TheConn) /\ ~TheConn.seeked /\ TheConn.n > 0) =>
        TheConn.last.bin = TheConn.n - 1

(* At the end of the dataset every bin has been emitted and is_running is
   false. *)
C7_AtEnd ==
    (TheConn.pc = "done" /\ TheConn.ended = "eos" /\ Unfiltered(TheConn)
        /\ ~TheConn.seeked) =>
        /\ ~TheConn.loop
        /\ TheConn.n = NumBins
        /\ TheConn.last.bin = NumBins - 1
        /\ ~TheEngine.is_running

(* A generator that has returned emits nothing more. *)
C7_NothingAfter ==
    TheConn.pc = "done" => (TheConn'.n = TheConn.n /\ TheConn'.pc = "done")

(* C7 -- end of stream: with loop off and no filter, the stream emits the bins
   from the cursor (0 at the start of a stream) to N-1 once each, in order,
   then ends; after the end is_running is false and nothing more is emitted. *)
C7_EndOfStream == []C7_InOrder /\ []C7_AtEnd /\ [][C7_NothingAfter]_vars

(* C7's case: a stream without loop or filter that reached the end of the
   dataset. *)
C7_Witness ==
    /\ TheConn.pc = "done"
    /\ TheConn.ended = "eos"
    /\ ~TheConn.loop
    /\ Unfiltered(TheConn)
    /\ ~TheConn.seeked
    /\ TheConn.n = NumBins

----------------------------------------------------------------------------
(* Properties of the sessions (SpecStream, Spec) *)

EngineOf(code) == engine[sess[code].engine]

(* A step made on behalf of session code: one of its control requests, or a
   run of the generator of one of its consumers. *)
OnSession(code) ==
    \/ HttpPause(code)
    \/ HttpResume(code)
    \/ HttpStop(code)
    \/ \E q \in SessionSeeks : HttpSeek(code, q)
    \/ \E c \in ConnIds : /\ conn[c].code = code
                          /\ (WsMetaSent(c) \/ WsNext(c) \/ WsWake(c))

(* The sessions of the map have pairwise different engine objects, all on the
   manager's shared loader. *)
C8_OwnEngine ==
    \A a \in Codes : InMap(a) =>
        /\ EngineOf(a).loader = SharedLoader
        /\ \A b \in Codes \ {a} : InMap(b) => sess[a].engine # sess[b].engine

(* A step on behalf of session a leaves the engine of every other session b
   as it was. *)
C8_Step ==
    \A a \in Codes : \A b \in Codes \ {a} :
        (InMap(b) /\ OnSession(a)) =>
            /\ InMap(b)'
            /\ sess'[b].engine = sess[b].engine
            /\ EngineOf(b)'.current_index = EngineOf(b).current_index
            /\ EngineOf(b)'.sequence_number = EngineOf(b).sequence_number
            /\ EngineOf(b)'.is_paused = EngineOf(b).is_paused
            /\ EngineOf(b)'.is_running = EngineOf(b).is_running

(* C8 -- session isolation: a control (pause, resume, seek, stop) on session A
   or a packet emission of session A leaves the cursor, the sequence counter,
   is_paused and is_running of every other session B as they were; the
   sessions of the map have pairwise different engine objects, all of them on
   the manager's one shared loader. *)
C8_Isolation == []C8_OwnEngine /\ [][C8_Step]_vars

(* C8's case: session "a" has streamed two packets to its consumer while
   session "b" sits paused on the cursor a seek gave it. *)
C8_Witness ==
    /\ InMap("a") /\ InMap("b")
    /\ \E c \in ConnIds : conn[c].code = "a" /\ conn[c].n >= 2
    /\ ~EngineOf("a").is_paused
    /\ EngineOf("b").is_paused
    /\ EngineOf("b").current_index = 1
    /\ EngineOf("a").current_index >= 2

Busy(code) == InMap(code) /\ sess[code].connections > 0

(* A step keeps every connected session and its engine; a create at capacity
   with every session connected grows the map. *)
C9_Step ==
    /\ \A code \in Codes : Busy(code) =>
          /\ InMap(code)'
          /\ sess'[code].engine = sess[code].engine
    /\ \A new \in Codes :
          (/\ ~InMap(new) /\ InMap(new)'
           /\ Len(order) = max_sessions
           /\ \A code \in Codes : InMap(code) => Busy(code))
          => Len(order') = max_sessions + 1

(* C9 -- no step removes a session whose connection count is above 0, be it a
   create at capacity, a cleanup of expired sessions or a delete; and when
   the map is at capacity with every session connected, creating a session
   with a new code keeps them all and the map grows by one. *)
C9_NoBusyRemoval == [][C9_Step]_vars

(* C9's case: the map holds one session more than its capacity, because the
   sessions that filled it were all connected when the last one was created. *)
C9_Witness ==
    /\ Len(order) = max_sessions + 1
    /\ Cardinality({code \in Codes : Busy(code)}) = max_sessions
    /\ ~Busy(order[Len(order)])

(* A create of a new code in a full map without connections evicts exactly
   the least recently active session. *)
C10_Step ==
    \A new \in Codes :
        (/\ ~InMap(new) /\ InMap(new)'
         /\ Len(order) = max_sessions
         /\ \A code \in Codes : InMap(code) => sess[code].connections = 0)
        => /\ Len(order') = max_sessions
           /\ \E gone \in Codes :
                 /\ InMap(gone) /\ ~InMap(gone)'
                 /\ \A code \in Codes : InMap(code) =>
                       sess[gone].idle >= sess[code].idle
                 /\ \A code \in Codes \ {gone} : InMap(code) =>
                       InMap(code)' /\ sess'[code] = sess[code]
                 /\ ~engine'[sess[gone].engine].is_running

(* C10 -- LRU eviction: when the map holds max_sessions sessions and none is
   connected, creating a session with a new code removes exactly one session,
   the one least recently active, stops that session's engine, keeps every
   other entry as it was, and leaves max_sessions sessions in the map. *)
C10_LruEviction == [][C10_Step]_vars

(* C10's case: a session whose engine had streamed was evicted, and the map is
   at capacity with no session connected. *)
C10_Witness ==
    /\ Len(order) = max_sessions
    /\ \A code \in Codes : InMap(code) => sess[code].connections = 0
    /\ \E e \in evicted : engine[e].current_index > 0 /\ ~engine[e].is_running

----------------------------------------------------------------------------
(* Properties of the manager's calls (SpecManager, Spec) *)

(* The place of a session in the OrderedDict: 1 is the least recently active. *)
Pos(code) == CHOOSE i \in 1..Len(order) : order[i] = code

Idle(code) == InMap(code) /\ sess[code].connections = 0

(* A create of a new code in a map at capacity evicts the least recently
   active of the sessions without a connection, if there is one. *)
C11_Step ==
    \A new \in Codes :
        (~InMap(new) /\ InMap(new)' /\ Len(order) >= max_sessions) =>
            IF \E code \in Codes : Idle(code)
            THEN \E gone \in Codes :
                    /\ Idle(gone) /\ ~InMap(gone)'
                    /\ \A code \in Codes : Idle(code) => Pos(gone) <= Pos(code)
                    /\ \A code \in Codes \ {gone} : InMap(code) => InMap(code)'
            ELSE \A code \in Codes : InMap(code) => InMap(code)'

(* C11 -- eviction skips busy sessions, as the specification states it: a
   create of a new code at capacity evicts the least recently active session
   among those with zero connections, even if older sessions are connected;
   only if every session is connected is the session created without an
   eviction. *)
C11_EvictionSkipsBusy == [][C11_Step]_vars

(* A delete of a connected session changes nothing and returns False; a delete
   of a session without connections stops its engine, removes its entry, keeps
   the other entries and returns True. *)
C12_Step ==
    \A code \in Codes : MgrDelete(code) =>
        /\ Busy(code) =>
              /\ ~lastOp'.ok
              /\ order' = order /\ sess' = sess /\ engine' = engine
        /\ Idle(code) =>
              /\ lastOp'.ok
              /\ ~InMap(code)'
              /\ order' = Remove(order, code)
              /\ ~engine'[sess[code].engine].is_running
              /\ \A other \in Codes \ {code} : sess'[other] = sess[other]

(* C12 -- delete(code) on a session with connections > 0 is refused: it returns
   false, the session stays in the map with the same engine, the engine is not
   stopped, and the connection count and the LRU position are unchanged; on a
   session with zero connections it stops the engine, removes the entry and
   returns true. *)
C12_Delete == [][C12_Step]_vars

(* C12's case: the last call was a delete of a connected session whose engine
   is streaming; it was refused and the session is still there. *)
C12_Witness ==
    /\ lastOp.op = "delete" /\ lastOp.was /\ ~lastOp.ok
    /\ Busy(lastOp.code)
    /\ engine[sess[lastOp.code].engine].is_running

(* A create of a code that is in the map returns the session it has, with its
   engine as it was, and only moves the session to the most recent place. *)
C13_Step ==
    \A code \in Codes : (MgrCreate(code) /\ InMap(code)) =>
        /\ lastOp'.ret = sess[code].engine
        /\ engine' = engine
        /\ nextEngine' = nextEngine
        /\ evicted' = evicted
        /\ order' = MoveToEnd(order, code)
        /\ sess'[code].engine = sess[code].engine
        /\ sess'[code].connections = sess[code].connections
        /\ sess'[code].idle = 0
        /\ \A other \in Codes \ {code} : sess'[other] = sess[other]

(* C13 -- create(code) with a code that already exists is idempotent: it
   returns the same session, keeps the same engine with its cursor, sequence
   counter, flags and connection count, creates no second entry and evicts no
   session even when the map is at capacity; its only effect is to touch the
   session's activity (move it to most recent). *)
C13_CreateExisting == [][C13_Step]_vars

(* C13's case: the last call created a code that was in a map at capacity,
   whose engine had streamed and whose oldest session could have been
   evicted. *)
C13_Witness ==
    /\ lastOp.op = "create" /\ lastOp.was
    /\ Len(order) >= max_sessions
    /\ order[Len(order)] = lastOp.code
    /\ Idle(order[1])
    /\ engine[sess[lastOp.code].engine].current_index > 0

(* The same sessions, each with the engine and the connections it had. *)
SameSessions ==
    \A code \in Codes :
        /\ InMap(code)' = InMap(code)
        /\ sess'[code].engine = sess[code].engine
        /\ sess'[code].connections = sess[code].connections

(* pause on a paused engine and resume on an engine that is not paused leave
   every engine and the sessions as they were; a delete of an unknown code
   returns False and leaves the map and the engines as they were. *)
C14_Step ==
    \A code \in Codes :
        /\ (MgrPause(code) /\ EngineOf(code).is_paused) =>
              engine' = engine /\ SameSessions
        /\ (MgrResume(code) /\ ~EngineOf(code).is_paused) =>
              engine' = engine /\ SameSessions
        /\ (MgrDelete(code) /\ ~InMap(code)) =>
              /\ ~lastOp'.ok
              /\ order' = order /\ sess' = sess /\ engine' = engine

(* C14 -- pause() on a paused engine, resume() on a non-paused engine and
   delete of a code that is not in the map are no-ops without error: the
   engine state (cursor, sequence counter, flags) and the sessions of the map
   are the same after the call as before it, and delete returns the not-found
   result. *)
C14_NoOps == [][C14_Step]_vars

(* C14's case: the last call was a pause of a session whose engine was paused
   already, in the middle of its stream. *)
C14_Witness ==
    /\ lastOp.op = "pause" /\ lastOp.was
    /\ InMap(lastOp.code)
    /\ EngineOf(lastOp.code).is_paused
    /\ EngineOf(lastOp.code).is_running
    /\ EngineOf(lastOp.code).current_index > 0

(* A get of a session returns its engine, sets its idle time to 0 and moves it
   to the most recent place; a get of an unknown code returns None and changes
   nothing; a create that follows a get of a session, with two or more
   sessions without connections in the map, does not evict that session. *)
C15_Step ==
    /\ \A code \in Codes : (MgrGet(code) /\ InMap(code)) =>
          /\ lastOp'.ret = sess[code].engine
          /\ sess'[code] = [sess[code] EXCEPT !.idle = 0]
          /\ order' = MoveToEnd(order, code)
          /\ engine' = engine
          /\ \A other \in Codes \ {code} : sess'[other] = sess[other]
    /\ \A code \in Codes : (MgrGet(code) /\ ~InMap(code)) =>
          /\ lastOp'.ret = None
          /\ order' = order /\ sess' = sess /\ engine' = engine
    /\ \A new \in Codes :
          (/\ ~InMap(new) /\ InMap(new)'
           /\ lastOp.op = "get" /\ lastOp.was /\ InMap(lastOp.code)
           /\ Cardinality({code \in Codes : Idle(code)}) >= 2)
          => InMap(lastOp.code)'

(* C15 -- get(code) on an existing session touches its activity: it sets
   last_active to the current time and moves the entry to the most recent end
   of the map, so that the next capacity eviction never picks the session
   fetched last (when at least two idle sessions exist); get on an unknown
   code returns nothing and changes no state. *)
C15_GetTouches == [][C15_Step]_vars

(* C15's case: the last call fetched the oldest session of a map at capacity
   that holds two sessions without connections; the session is now the most
   recent one and an older one has been idle for longer. *)
C15_Witness ==
    /\ lastOp.op = "get" /\ lastOp.was
    /\ Len(order) >= max_sessions
    /\ order[Len(order)] = lastOp.code
    /\ sess[lastOp.code].idle = 0
    /\ Idle(lastOp.code) /\ Idle(order[1])
    /\ sess[order[1]].idle > 0
    /\ sess[order[1]].engine > sess[lastOp.code].engine

(* A session that cleanup_expired must remove: idle for longer than the TTL
   and without a connection. *)
Stale(code) ==
    InMap(code) /\ sess[code].idle > session_ttl /\ sess[code].connections = 0

(* A cleanup removes the stale sessions and stops their engines, keeps every
   other session and its engine as they were, and returns the number of
   sessions it removed. *)
C16_Step ==
    MgrCleanup =>
        /\ \A code \in Codes : Stale(code) =>
              /\ ~InMap(code)'
              /\ ~engine'[sess[code].engine].is_running
        /\ \A code \in Codes : (InMap(code) /\ ~Stale(code)) =>
              /\ InMap(code)'
              /\ sess'[code] = sess[code]
              /\ engine'[sess[code].engine] = engine[sess[code].engine]
        /\ order' = SelectSeq(order, LAMBDA code : ~Stale(code))
        /\ lastOp'.ret = Len(order) - Len(order')

(* C16 -- cleanup_expired removes exactly the sessions with
   now - last_active > ttl and connections == 0, stops their engines, leaves
   every other session untouched, and returns the number of sessions it
   removed. *)
C16_CleanupExpired == [][C16_Step]_vars

(* C16's case: the last call was a cleanup that removed two sessions and kept
   a session that was idle for as long but has a connection. *)
C16_Witness ==
    /\ lastOp.op = "cleanup" /\ lastOp.ret = 2
    /\ \E code \in Codes : Busy(code) /\ sess[code].idle > session_ttl
    /\ Len(order) = 1

----------------------------------------------------------------------------
(* Properties of the streaming handler (Spec, SpecStream, SpecLive) *)

(* The streaming connections that are open on a session code: accepted and
   counted by their handler, and not yet closed. *)
OpenOn(code) ==
    {c \in ConnIds : conn[c].code = code
                     /\ conn[c].pc \in {"meta", "yielded", "ticksleep", "pausewait"}}

(* C17 -- connection accounting, as the specification states it: in every
   state, every session of the map has a connection count that is not
   negative and equals the number of open streaming connections that were
   opened on its code, whatever deletes, creates with eviction and cleanups
   run between a connection's lookup, its accept and its close. *)
C17_Accounting ==
    \A code \in Codes : InMap(code) =>
        /\ sess[code].connections >= 0
        /\ sess[code].connections = Cardinality(OpenOn(code))

(* C18 -- disconnect cleanup, as the specification states it: whenever the
   client of a streaming connection closes its socket, the handler eventually
   stops streaming to it and gives the connection back (its finally block
   decrements the count), whatever state the engine is in: running or
   paused. *)
C18_DisconnectCleanup ==
    \A c \in StreamConns : conn[c].gone ~> (conn[c].pc = "closed")

(* The handler's exit on a disconnect keeps the map and every engine as they
   are and takes one connection off the session's count. *)
C19_Step ==
    \A c \in ConnIds : WsDisconnect(c) =>
        /\ order' = order
        /\ engine' = engine
        /\ \A code \in Codes : InMap(code) =>
              /\ sess'[code].engine = sess[code].engine
              /\ sess'[code].connections =
                    IF code = conn[c].code
                    THEN Max(0, sess[code].connections - 1)
                    ELSE sess[code].connections

(* C19 -- closing a streaming connection never stops or removes the session:
   after the last consumer of a session has disconnected the session is still
   in the map, with connections == 0, and the disconnect has not stopped its
   engine. *)
C19_DisconnectKeepsSession == [][C19_Step]_vars

(* C19's case: the consumer has left in the middle of the stream; its session
   is in the map with no connection and its engine is still marked running. *)
C19_Witness ==
    /\ \A c \in StreamConns : conn[c].pc = "closed"
    /\ \E code \in Codes :
          /\ InMap(code) /\ sess[code].connections = 0
          /\ EngineOf(code).is_running
          /\ EngineOf(code).sequence_number >= 1

(* The first packet of a connection that is the only one on its session
   carries the sequence number and the bin the session's engine had reached. *)
C20_Step ==
    \A c \in ConnIds :
        (/\ WsMetaSent(c) /\ conn'[c].pc = "yielded"
         /\ InMap(conn[c].code)
         /\ sess[conn[c].code].engine = conn[c].eng
         /\ OpenOn(conn[c].code) = {c})
        => /\ conn'[c].last.seq = engine[conn[c].eng].sequence_number
           /\ conn'[c].last.bin = IF engine[conn[c].eng].current_index < NumBins
                                  THEN engine[conn[c].eng].current_index ELSE 0

(* C20 -- resumable session, as the specification states it: after every
   consumer of a session has disconnected the session keeps its cursor and its
   sequence counter, and a later connection to the same code goes on from that
   cursor and that sequence number instead of starting again at bin 0 and
   sequence 0. *)
C20_Resumable == [][C20_Step]_vars

----------------------------------------------------------------------------
(* C21 *)

(* A connection that sent a data frame with nothing after it but its sleep. *)
Sending(c) == conn[c].pc \in {"yielded", "ticksleep", "pausewait"}

(* One metadata frame, before any data frame; the k-th data frame carries
   the k-th sequence number of the stream. *)
C21_MetadataFirst ==
    \A c \in ConnIds :
        /\ conn[c].meta <= 1
        /\ conn[c].pc \in {"new", "accepting", "meta"} =>
               conn[c].meta = 0 /\ conn[c].n = 0
        /\ Sending(c) => conn[c].meta = 1
        /\ conn[c].n > 0 => conn[c].meta = 1 /\ conn[c].last.seq = conn[c].n - 1

(* No metadata frame after a data frame; a new data frame is the next one. *)
C21_Step ==
    \A c \in StreamConns :
        /\ conn[c].n > 0 /\ conn'[c].n > 0 => conn'[c].meta = conn[c].meta
        /\ conn[c].n > 0 /\ conn'[c].n > conn[c].n =>
               /\ conn'[c].n = conn[c].n + 1
               /\ conn'[c].last.seq = conn[c].last.seq + 1

(* C21 (frame order): on every accepted streaming connection exactly one
   metadata frame is sent and it is the first frame: no data frame is sent
   before it and none is sent without it.  Every later frame is a data
   frame, and the data frames are sent in the order the engine emitted the
   packets: the k-th data frame carries the k-th sequence number of the
   stream, and a new data frame follows the one before it. *)
C21_FrameOrder == []C21_MetadataFirst /\ [][C21_Step]_vars

(* C21's case: a connection has sent its metadata and two data frames. *)
C21_Witness ==
    \E c \in StreamConns :
        /\ conn[c].pc = "yielded"
        /\ conn[c].meta = 1
        /\ conn[c].n = 2
        /\ conn[c].last.seq = 1

----------------------------------------------------------------------------
(* C22 *)

C22_NothingChanged ==
    UNCHANGED <<order, sess, engine, nextEngine, evicted, conn, dataset, stage, reads, shut>>

(* What each request does on a code that is not in the map. *)
C22_Step ==
    \A code \in Codes :
        ~InMap(code) =>
            /\ MgrGet(code) => lastOp'.ret = None /\ C22_NothingChanged
            /\ MgrDelete(code) => ~lastOp'.ok /\ C22_NothingChanged
            /\ \A op \in ControlOps :
                   MgrControlNotFound(op, code) =>
                       /\ lastOp' = [op |-> op, code |-> code, ret |-> None,
                                     ok |-> FALSE, was |-> FALSE]
                       /\ C22_NothingChanged
            /\ \A c \in StreamConns, f \in StreamQueries :
                   MgrWsOpen(c, code, f) =>
                       /\ Has(order', code)
                       /\ lastOp'.ret # None
                       /\ conn'[c].pc = "accepting"
                       /\ conn'[c].eng = sess'[code].engine
                       /\ sess'[code].connections = 0

(* C22 (unknown session handling): opening a stream on a code that is not
   in the map creates the session before the socket is accepted (the
   connection waits for accept() with the new session's engine, not yet
   counted) and never answers not-found, whereas every HTTP operation
   addressed to a session (get, pause, resume, stop, seek, delete) on a code
   that is not in the map answers 404, creates no session and changes no
   state. *)
C22_UnknownSession == [][C22_Step]_vars

(* C22's case: a seek on a code that is not in the map was answered 404
   while another session had a consumer streaming. *)
C22_Witness ==
    /\ lastOp.op = "seek"
    /\ ~lastOp.ok
    /\ ~InMap(lastOp.code)
    /\ \E c \in StreamConns : conn[c].pc = "yielded" /\ InMap(conn[c].code)

(* C22's other case: a stream was opened on a code that was not in the map. *)
C22_WitnessStream ==
    /\ lastOp.op = "get"
    /\ ~lastOp.was
    /\ lastOp.ret # None
    /\ \E c \in StreamConns : conn[c].pc = "accepting" /\ conn[c].code = lastOp.code

----------------------------------------------------------------------------
(* C23 *)

(* The connections whose handler holds a live generator of engine e: each of
   them runs stream()'s loop on e's cursor and sequence counter. *)
Producers(e) == {c \in ConnIds : conn[c].eng = e /\ Streaming(c)}

(* C23 (single producer per session): at most one task advances a session's
   cursor and sequence counter, also when two or more streaming connections
   are open on the same code. *)
C23_SingleProducer ==
    \A code \in Codes :
        InMap(code) => Cardinality(Producers(sess[code].engine)) <= 1

----------------------------------------------------------------------------
(* C24, C25 *)

(* The consumer's async for ended with an exception out of the generator,
   the cursor left on a bin whose kinematics read is of the given kind. *)
DiedOn(kind) ==
    /\ TheConn.pc = "done"
    /\ TheConn.ended = "error"
    /\ TheEngine.current_index < NumBins
    /\ reads[TheEngine.current_index] = kind

(* C24 (dataset read failure): when a dataset query raises during the
   synthesis of the packet of bin i, the engine emits nothing for that bin,
   moves the cursor past it and the stream continues with the next bin on
   the same connection: the stream never ends on the bin that could not be
   read. *)
C24_ReadFailureSkipped == ~DiedOn("raises")

(* C25 (empty kinematics slice): when the kinematics slice of a bin is empty
   the engine emits a packet with zeroed kinematics and the stream continues:
   the stream never ends on such a bin, and the packet emitted for it has
   zeroed kinematics. *)
C25_EmptySliceZeroed ==
    /\ ~DiedOn("empty")
    /\ TheConn.n > 0 /\ reads[TheConn.last.bin] = "empty" => TheConn.last.kin = "zero"

----------------------------------------------------------------------------
(* C26 *)

(* What the step of a failed send changes, and what it leaves alone. *)
C26_Step ==
    \A c \in ConnIds :
        WsDisconnect(c) =>
            LET code == conn[c].code IN
            /\ conn'[c].pc = "closed"
            /\ order' = order
            /\ InMap(code) =>
                   /\ sess'[code].connections = Max(0, sess[code].connections - 1)
                   /\ sess[code].connections > 0 =>
                          sess'[code].connections = sess[code].connections - 1
                   /\ sess'[code].engine = sess[code].engine
            /\ \A d \in ConnIds \ {c} : conn'[d] = conn[d]
            /\ \A other \in Codes \ {code} : sess'[other] = sess[other]
            /\ \A e \in EngineIds \ {conn[c].eng} : engine'[e] = engine[e]

(* C26 (send/encode failure containment): a failure to encode or send a
   packet on one connection ends that connection only: its loop stops and
   its session's count goes down by one; the session stays in the map with
   its engine, and nothing changes for the other connections, the other
   sessions and their engines. *)
C26_FailureContained == [][C26_Step]_vars

(* C26's case: a connection ended on a failed send and left its session in
   the map, its engine where it was, while a connection of another session
   is streaming. *)
C26_Witness ==
    \E c, d \in ConnIds, code \in Codes :
        /\ conn[c].pc = "closed"
        /\ conn[d].pc = "yielded"
        /\ conn[d].code # code
        /\ InMap(conn[d].code)
        /\ sess[conn[d].code].connections = 1
        /\ InMap(code)
        /\ sess[code].connections = 0
        /\ engine[sess[code].engine].is_running
        /\ engine[sess[code].engine].current_index > 0

----------------------------------------------------------------------------
(* C27 *)

(* Whatever the side bus is, the data frames are the engine's packets in
   order, and a packet is sent on the socket only after its publish call,
   if there is one, has returned. *)
C27_InOrder ==
    \A c \in StreamConns :
        /\ conn[c].n > 0 => conn[c].last.seq = conn[c].n - 1
        /\ conn[c].bus # "active" => conn[c].pub = 0 /\ conn[c].pubfail = 0
        /\ conn[c].bus = "active" =>
               conn[c].pub <= conn[c].n /\ conn[c].pub >= conn[c].n - 1

C27_Step ==
    \A c \in StreamConns :
        /\ \A ok \in BOOLEAN :
               LslPublish(c, ok) =>
                   /\ conn'[c].pc = "yielded"
                   /\ conn'[c].last = conn[c].last
                   /\ conn'[c].n = conn[c].n
                   /\ sess' = sess /\ engine' = engine
        /\ conn[c].pc = "yielded" /\ conn[c].n < MaxSessionOut /\ ~wedged
              /\ (conn[c].bus # "active" \/ conn[c].pub = conn[c].n)
              => ENABLED LslNext(c)

(* C27 (side-bus tolerance): when the side bus is absent, fails to
   initialize, or fails on a publish call, every packet the engine emits is
   still sent on the socket, in order, and the connection is not terminated:
   a publish call, failed or not, returns to the handler with the packet
   still to be sent, and the send and the next iteration follow. *)
C27_SideBusTolerance == []C27_InOrder /\ [][C27_Step]_vars

(* C27's case: a publish call failed, its packet was sent all the same and
   the connection went on to the next packet. *)
C27_Witness ==
    \E c \in StreamConns :
        /\ conn[c].bus = "active"
        /\ conn[c].pubfail > 0
        /\ conn[c].pc = "yielded"
        /\ conn[c].n = 2
        /\ conn[c].pub = 1

(* C27's other cases: a connection whose streamer failed to initialize, and
   one without the bus, are at their second packet. *)
C27_WitnessNoBus ==
    /\ \E c \in StreamConns :
           conn[c].bus = "init_failed" /\ conn[c].pc = "yielded" /\ conn[c].n = 2

----------------------------------------------------------------------------
(* C28 *)

(* C28 (shutdown): process shutdown stops every engine, those of sessions
   with open connections included, and closes every open socket, and the
   dataset is closed only after all engines are stopped and all sockets are
   closed: whenever the dataset is closed, no engine is running and no
   handler holds an open socket. *)
C28_OrderedShutdown ==
    shut # "up" =>
        /\ \A e \in EngineIds : ~engine[e].is_running
        /\ \A c \in ConnIds : Active(c) => conn[c].gone

----------------------------------------------------------------------------
(* C29 *)

(* stop() has been called on the engine of the session. *)
StoppedEngine == IF lastOp.op = "stop" THEN lastOp.ret ELSE None

(* The engine stop() was called on is not running. *)
C29_StaysStopped ==
    StoppedEngine # None => ~engine[StoppedEngine].is_running

(* No connection on the engine stop() was called on receives a packet. *)
C29_Step ==
    StoppedEngine # None =>
        \A c \in ConnIds :
            conn'[c].eng = StoppedEngine => conn'[c].n <= conn[c].n

(* C29 (engine state machine): Fresh -> Running <-> Paused -> Stopped, and
   Stopped is terminal: after stop() the engine never becomes running again
   and never emits another packet, whatever follows (resume, seek, a new
   connection). *)
C29_StoppedIsTerminal == []C29_StaysStopped /\ [][C29_Step]_vars

----------------------------------------------------------------------------
(* C30 *)

(* C30 (trial-relative time): trial_time_ms of an emitted packet is the
   number of milliseconds between the start of the enclosing trial and the
   start of the bin (t0 * 1000 - t_start * 1000), and it is null, together
   with trial_id and the intention fields, when the bin lies outside every
   trial. *)
C30_TrialRelativeTime ==
    TheConn.n > 0 =>
        LET pkt == TheConn.last
            t0_ms == pkt.bin * PacketIntervalMs
            trial == get_trial_by_time(dataset, t0_ms)
        IN IF trial = NoTrial
           THEN /\ pkt.trial_time_ms = None
                /\ pkt.trial_id = None
                /\ pkt.target_id = None
           ELSE pkt.trial_time_ms = t0_ms - trial.start_ms

----------------------------------------------------------------------------
(* C31 *)

(* C31 (noise nonnegativity): for every input packet, every elapsed time and
   every parameter setting (noise_std >= 0, drift_amplitude >= 0, each stage
   enabled or disabled), every spike count output by the noise stage is an
   integer >= 0, and the output has the same number of channels as the
   input. *)
C31_NoiseNonnegative ==
    /\ DOMAIN stage.out = DOMAIN stage.inp
    /\ \A c \in DOMAIN stage.out : stage.out[c] \in Nat

(* C31's case: with noise and drift enabled, a channel whose count the
   perturbation would have made negative came out as 0 beside one that came
   out positive. *)
C31_Witness ==
    /\ stage.enable_noise /\ stage.enable_drift
    /\ stage.noise_std > 0 /\ stage.drift_amplitude > 0
    /\ Len(stage.out) = NumChannels
    /\ \E c, d \in DOMAIN stage.out :
           /\ stage.inp[c] > 0 /\ stage.out[c] = 0
           /\ stage.out[d] > stage.inp[d]

----------------------------------------------------------------------------
(* C32 *)

(* The data frames of the two endpoints decode to the same envelope. *)
C32_DataFramesAgree ==
    \A c \in StreamConns :
        conn[c].n > 0 =>
            unpackb(BinaryDataFrame(conn[c].last)) = json_loads(TextDataFrame(conn[c].last))

(* C32 (encoding equivalence): for the same session state the binary and
   the text endpoint carry the same objects: decoding the binary frame gives
   the envelope the text endpoint sends as JSON, for the metadata frame
   (type, data and session fields) and for every data frame (type and the
   full packet). *)
C32_SameObjects ==
    \A c \in StreamConns :
        /\ conn[c].meta = 1 =>
               unpackb(BinaryMetadataFrame(conn[c].code))
                   = json_loads(TextMetadataFrame(conn[c].code))
        /\ conn[c].n > 0 =>
               unpackb(BinaryDataFrame(conn[c].last)) = json_loads(TextDataFrame(conn[c].last))

----------------------------------------------------------------------------
(* C33, C34 *)

(* The bins whose packet passes the filters of a connection. *)
MatchingBins(cn) ==
    {b \in 0..(NumBins - 1) :
        ~Rejected(Packet(dataset, [NewEngine(None) EXCEPT !.current_index = b]),
                  cn.trial_filter, cn.target_filter)}

(* The bin before the part of the pass the last packet came from: the bin of
   the packet before it, or -1 when the last packet is the first of its pass. *)
PassFloor(cn) ==
    IF cn.n >= 2 /\ cn.prev.bin < cn.last.bin THEN cn.prev.bin ELSE -1

(* C33 (filter skipping visits every bin): each bin the filter rejects moves
   the cursor on by exactly one bin, so within one pass over the dataset
   every matching bin is emitted exactly once, in ascending order, and none
   is skipped: no matching bin lies between two packets of a pass or before
   the first one, and a pass that ran to the end of the dataset has emitted
   as many packets as there are matching bins. *)
C33_EveryMatchingBin ==
    ~TheConn.seeked =>
        /\ TheConn.n >= 1 =>
               \A b \in MatchingBins(TheConn) :
                   ~(PassFloor(TheConn) < b /\ b < TheConn.last.bin)
        /\ (~TheConn.loop /\ TheConn.ended = "eos") =>
               TheConn.n = Cardinality(MatchingBins(TheConn))

(* C34 (filter liveness): if at least one bin of the dataset matches the
   filter, a running, non-paused stream started at bin 0 emits a matching
   packet within its first pass: no such stream reaches the end of the
   dataset, or goes round it without suspending, before its first packet. *)
C34_FilterLiveness ==
    (/\ MatchingBins(TheConn) # {}
     /\ TheConn.eng = StandaloneEngine
     /\ ~TheConn.seeked
     /\ TheConn.ended = "eos" \/ wedged) =>
        TheConn.n >= 1

----------------------------------------------------------------------------
(* C35 *)

(* Without filter, seek or wrap the packet with sequence number s is bin s. *)
C35_BinIsSequence ==
    (TheConn.n >= 1 /\ TheConn.n <= NumBins /\ Unfiltered(TheConn) /\ ~TheConn.seeked) =>
        TheConn.last.bin = TheConn.last.seq

(* An emission leaves the cursor one bin after the packet's bin; the
   generator's next step leaves the sequence number one after the packet's. *)
C35_Step ==
    /\ TheConn'.n = TheConn.n + 1 =>
           /\ TheEngine'.current_index = TheConn'.last.bin + 1
           /\ TheConn'.last.seq = TheEngine'.sequence_number
    /\ (TheConn.pc = "yielded" /\ TheConn'.pc # "yielded" /\ TheConn'.n = TheConn.n) =>
           TheEngine'.sequence_number = TheConn.last.seq + 1

(* C35 (cursor and sequence advance together): every emitted packet advances
   the cursor by one bin and the sequence number by one, so that without
   filter, seek or wrap the packet with sequence_number s carries bin s. *)
C35_AdvanceTogether == []C35_BinIsSequence /\ [][C35_Step]_vars

(* C35's case: the last bin of the dataset emitted as the last packet of the
   first pass of an unfiltered stream that was paused on the way. *)
C35_Witness ==
    /\ TheConn.n = NumBins
    /\ Unfiltered(TheConn)
    /\ ~TheConn.seeked
    /\ TheConn.ctx.pause.set
    /\ TheConn.last.bin = NumBins - 1
    /\ TheConn.last.seq = NumBins - 1

----------------------------------------------------------------------------
(* C36 *)

(* C36 (cursor bound): in every reachable engine state, after any number of
   emissions, filter skips, seeks and loop wraps, the cursor i satisfies
   0 <= i <= N for a dataset of N bins; it never exceeds N. *)
C36_CursorBound ==
    \A e \in EngineIds :
        0 <= engine[e].current_index /\ engine[e].current_index <= NumBins

----------------------------------------------------------------------------
(* C37 *)

(* C37 (timing-error ring bounded): the number of timing-error samples an
   engine retains never exceeds 1000: older samples are dropped as new ones
   arrive, whatever the length of the run. *)
C37_RingBounded ==
    \A e \in EngineIds : TimingErrors(engine[e]) <= RingSize

----------------------------------------------------------------------------
(* C38 *)

(* C38 (side-bus hand-off does not hold back the wire client): the socket
   send of a packet does not wait for the side-bus publish of that packet to
   complete: a handler that holds a packet can send it whether or not its
   publish call has returned, and a bus that is not ready only costs the
   side-bus copy. *)
C38_SendNotHeld ==
    \A c \in StreamConns :
        (conn[c].pc = "yielded" /\ conn[c].n < MaxSessionOut /\ ~wedged) =>
            ENABLED LslNext(c)

----------------------------------------------------------------------------
(* C39 *)

(* The engine is the engine of a session in the map. *)
Mapped(e) == \E code \in Codes : InMap(code) /\ sess[code].engine = e

(* A packet is emitted only by the engine of a session that is in the map. *)
C39_Step ==
    \A c \in ConnIds :
        (conn'[c].n > conn[c].n /\ conn[c].code # NoCode) => Mapped(conn[c].eng)

(* C39 (an engine stops with its session): once a session is removed from
   the map, by delete, by eviction or by TTL cleanup, its engine never emits
   another packet, under every interleaving of the removal with a connection
   being opened on that code. *)
C39_StopsWithSession == [][C39_Step]_vars

----------------------------------------------------------------------------
(* C40 *)

(* C40 (no session wedges the server): from every state the producer loop
   reaches a suspension point, emits or terminates within a bounded number
   of steps, also under a filter that matches no bin with loop enabled: no
   coroutine ever loops without suspending, so a pending stop() is observed
   and the producers of other sessions keep emitting. *)
C40_NoWedge == ~wedged

====
